---- MODULE Spec2Model ----
(***************************************************************************)
(* A model of KabeNaki's character extractor and sprite compositor        *)
(* (Source/Tkinter/tkinter_app_fix_RGBA.py, with the differences of the    *)
(* other variants noted where they matter).                                *)
(*                                                                         *)
(*   SpecExtract  CharacterExtractor.extract_character_parts, one action   *)
(*                per numbered step of the method.                         *)
(*   SpecComp     SpriteCompositor.calculate_canvas_size and               *)
(*                create_composite_image called by a caller that changes   *)
(*                the arguments between calls.                             *)
(*   SpecWeb      the same caller on the compositor of                     *)
(*                Source/Streamlit/web.py.                                 *)
(*   SpecTint     apply_color_correction and apply_color_adjustment        *)
(*                called on an image and a colour dictionary.              *)
(*   SpecCat      categorize_part called on a name.                        *)
(*   SpecApp      UnityExtractorGUI: an extraction followed by the         *)
(*                handlers of the part list and generate_composite.        *)
(*                                                                         *)
(* Python values: a value that may be None is a sequence, <<>> for None    *)
(* and <<v>> for the value v; a dict is a sequence of records in insertion *)
(* order with unique keys; a list is a sequence.                           *)
(***************************************************************************)
EXTENDS Integers, Sequences, FiniteSets, TLC

VARIABLES
    \* ---- extract_character_parts ----
    env,               \* env.objects: the records of the loaded bundle
    pc,                \* the step the method is at
    game_objects,      \* dict path_id -> GameObject entry
    transforms,        \* dict path_id -> Transform entry
    sprite_renderers,  \* dict path_id -> SpriteRenderer entry
    character_parts,   \* list built by step 2
    hierarchy,         \* extraction_results["hierarchy"]
    sprite_mapping,    \* extraction_results["sprite_mapping"]
    files,             \* the sprites directory: path -> what was saved there
    transform_data,    \* extraction_results["transform_data"]
    \* ---- SpriteCompositor and its caller ----
    sprite_data,       \* the part list handed to the compositor
    selected_sprites,  \* the selection argument: None, or a set of names
    custom_depths,     \* the depth overrides: name -> depth, on a set of names
    custom_colors,     \* the tint overrides: name -> colour, on a set of names
    base_canvas_size,  \* SpriteCompositor.base_canvas_size
    size_ret,          \* what calculate_canvas_size returned last
    image_ret,         \* what create_composite_image returned last
    painted,           \* sorted_parts of the last create_composite_image, as indices into sprite_data
    calls,             \* create_composite_image calls since the arguments last changed
    \* ---- the tint corrector called on its own ----
    tint_heap,         \* the images that exist: object id -> image
    tint_arg,          \* the id of the image passed in
    tint_factors,      \* the colour dictionary passed in
    tint_fn,           \* the method that was called, "none" before the call
    tint_ret,          \* the id of the image returned, None before the call
    \* ---- categorize_part called on its own ----
    part_name,         \* the name passed in
    category,          \* what categorize_part returned, None before the call
    \* ---- UnityExtractorGUI: the part list, the preview timer, the threads ----
    gui_selected_sprites,  \* self.selected_sprites: a list of names
    shown_parts,           \* the part list the widgets of the selection tab were built from
    check_vars,            \* the BooleanVar of each shown part's checkbox
    auto_update,           \* self.auto_update
    preview_update_timer,  \* self.preview_update_timer: None, or the id of the last timer armed
    after_queue,           \* the ids of the after() timers Tk still holds
    next_after,            \* the id the next after() call returns
    extract_worker,        \* the extraction thread: where it is and what it extracted
    threads,               \* the generation threads: how many were started, those not yet
                           \* displayed, and the one whose composite is displayed
    saved_file             \* the image save_composite wrote last, None before

extractVars == <<env, pc, game_objects, transforms, sprite_renderers,
                 character_parts, hierarchy, sprite_mapping, files, transform_data>>
compVars == <<sprite_data, selected_sprites, custom_depths, custom_colors,
              base_canvas_size, size_ret, image_ret, painted, calls>>
tintVars == <<tint_heap, tint_arg, tint_factors, tint_fn, tint_ret>>
catVars == <<part_name, category>>
guiVars == <<gui_selected_sprites, shown_parts, check_vars, auto_update,
             preview_update_timer, after_queue, next_after, extract_worker,
             threads, saved_file>>
vars == <<extractVars, compVars, tintVars, catVars, guiVars>>

None == <<>>
Some(v) == <<v>>

(***************************************************************************)
(* Bounds                                                                  *)
(***************************************************************************)
\* frames build_hierarchy may nest before the interpreter raises RecursionError
RecursionLimit == 5

(***************************************************************************)
(* Helpers for sequences used as Python lists and dicts                    *)
(***************************************************************************)
Range(s) == {s[i] : i \in 1..Len(s)}

\* dict.get(key): the entry with that path_id, or None
DictGet(d, key) ==
    IF \E i \in 1..Len(d) : d[i].id = key
    THEN Some(d[CHOOSE i \in 1..Len(d) : d[i].id = key])
    ELSE None

\* d[key] = entry: replaces in place when the key exists, else appends
DictPut(d, entry) ==
    IF \E i \in 1..Len(d) : d[i].id = entry.id
    THEN [i \in 1..Len(d) |-> IF d[i].id = entry.id THEN entry ELSE d[i]]
    ELSE Append(d, entry)

\* FirstWithGameObject without the break: the last match wins
FirstWithGameObject_NoBreak(d, go_id) ==
    IF \E i \in 1..Len(d) : d[i].game_object = go_id
    THEN Some(d[CHOOSE i \in 1..Len(d) :
                  /\ d[i].game_object = go_id
                  /\ \A j \in (i+1)..Len(d) : d[j].game_object # go_id])
    ELSE None

\* the first element of a list satisfying the test of a for/if/break loop, or None
FirstWithGameObject(d, go_id) ==
    IF \E i \in 1..Len(d) : d[i].game_object = go_id
    THEN Some(d[CHOOSE i \in 1..Len(d) :
                  /\ d[i].game_object = go_id
                  /\ \A j \in 1..(i-1) : d[j].game_object # go_id])
    ELSE None


Min(a, b) == IF a <= b THEN a ELSE b
Max(a, b) == IF a >= b THEN a ELSE b
Abs(a) == IF a >= 0 THEN a ELSE -a

(***************************************************************************)
(* Numbers                                                                 *)
(* A float position p/PosScale is held as the integer p, a float colour    *)
(* factor c/ColorUnit as the integer c; an 8-bit channel is 0..255.        *)
(***************************************************************************)
PosScale == 200
ColorUnit == 10000

\* the identity tint {"r": 1.0, "g": 1.0, "b": 1.0, "a": 1.0}
DefaultColor == [r |-> ColorUnit, g |-> ColorUnit, b |-> ColorUnit, a |-> ColorUnit]

\* abs(c - 1.0) < 0.001 on every channel
is_default_color(color) ==
    /\ 1000 * Abs(color.r - ColorUnit) < ColorUnit
    /\ 1000 * Abs(color.g - ColorUnit) < ColorUnit
    /\ 1000 * Abs(color.b - ColorUnit) < ColorUnit
    /\ 1000 * Abs(color.a - ColorUnit) < ColorUnit

\* The array is float32 (dtype=np.float32): the factor c/ColorUnit is
\* rounded to the nearest float32 j / 2^s, with 2^23 <= j <= 2^24 (ties to
\* the even j), or j = 0. The binary digits of c/ColorUnit are taken one by
\* one: the value is (j + r/ColorUnit) / 2^s all along.
RECURSIVE Float32Digits(_, _, _)
Float32Digits(j, r, s) ==
    IF j >= 2^23
    THEN [j |-> IF 2 * r > ColorUnit \/ (2 * r = ColorUnit /\ j % 2 = 1)
                THEN j + 1 ELSE j,
          s |-> s]
    ELSE Float32Digits(2 * j + (IF 2 * r >= ColorUnit THEN 1 ELSE 0),
                       IF 2 * r >= ColorUnit THEN 2 * r - ColorUnit ELSE 2 * r,
                       s + 1)

Float32(c) ==
    IF c = 0 THEN [j |-> 0, s |-> 0]
    ELSE Float32Digits(c \div ColorUnit, c % ColorUnit, 0)

\* the number of binary digits of h
RECURSIVE BitLen(_)
BitLen(h) == IF h = 0 THEN 0 ELSE 1 + BitLen(h \div 2)

\* int(np.float32(v) * f) for an 8-bit v: the product v * j / 2^s rounded to
\* 24 significant digits, then truncated. With v * j = H * 2^12 + L, the
\* rounding reaches the next integer N + 1 when the product lies within half
\* a unit of its last kept digit below it.
MulTrunc(v, f) ==
    IF f.j = 0 \/ v = 0 THEN 0
    ELSE LET A == v * (f.j \div 4096)
             B == v * (f.j % 4096)
             H == A + B \div 4096
             L == B % 4096
             T == 2^(f.s - 12)
             N == H \div T
             G == (N + 1) * T - H
             up == /\ G = 1
                   /\ BitLen(H) >= 13
                   /\ 2 * (4096 - L) <= 2^(BitLen(H) - 12)
         IN  IF up THEN N + 1 ELSE N

\* ScaleChannel without np.clip: the cast to uint8 keeps the low eight bits
ScaleChannel_Wrap(v, factor) == MulTrunc(v, Float32(factor)) % 256

\* one channel: float32 product, np.clip to 0..255, astype(uint8) truncates
ScaleChannel(v, factor) == Max(0, Min(255, MulTrunc(v, Float32(factor))))

\* an image is [size |-> <<w, h>>, px |-> [pixel coordinate -> <<r, g, b, a>>]]
apply_color_correction(original_image, color_info) ==
    [size |-> original_image.size,
     px   |-> [p \in DOMAIN original_image.px |->
                 <<ScaleChannel(original_image.px[p][1], color_info.r),
                   ScaleChannel(original_image.px[p][2], color_info.g),
                   ScaleChannel(original_image.px[p][3], color_info.b),
                   ScaleChannel(original_image.px[p][4], color_info.a)>>]]

\* an image of w x h pixels, all of one colour
Solid(w, h, rgba) ==
    [size |-> <<w, h>>, px |-> [p \in (0..(w-1)) \X (0..(h-1)) |-> rgba]]

(***************************************************************************)
(* extract_character_parts: the records of a bundle                        *)
(***************************************************************************)
\* characters that re.sub(r'[<>:"/\\|?*]', '_', name) replaces
ForbiddenChars == {"<", ">", ":", "\"", "/", "\\", "|", "?", "*"}

safe_name(sprite_name) ==
    [i \in 1..Len(sprite_name) |->
        IF sprite_name[i] \in ForbiddenChars THEN "_" ELSE sprite_name[i]]

\* os.path.join(sprites_dir, f"{safe_name}.png")
output_path_of(sprite_name) == <<"sprites">> \o safe_name(sprite_name) \o <<".png">>

\* getattr(ref, "m_PathID", 0) if ref else 0
PathIDOf(ref) == IF ref = None THEN 0 ELSE ref[1]

GameObjectEntry(o) == [id |-> o.path_id, name |-> o.m_Name]

TransformEntry(o) ==
    [id |-> o.path_id,
     game_object |-> PathIDOf(o.m_GameObject),
     local_position |-> o.m_LocalPosition,
     children |-> o.m_Children,
     parent |-> PathIDOf(o.m_Father)]

SpriteRendererEntry(o) ==
    [id |-> o.path_id,
     game_object |-> PathIDOf(o.m_GameObject),
     sprite |-> PathIDOf(o.m_Sprite),
     sorting_order |-> o.m_SortingOrder,
     color |-> o.m_Color]

EntryOf(o) ==
    CASE o.type = "GameObject" -> GameObjectEntry(o)
      [] o.type = "Transform" -> TransformEntry(o)
      [] o.type = "SpriteRenderer" -> SpriteRendererEntry(o)

\* step 1, for one record type: a record whose read raises is skipped
RECURSIVE ReadRecords(_, _, _)
ReadRecords(objs, typ, acc) ==
    IF objs = <<>> THEN acc
    ELSE LET o == Head(objs) IN
         ReadRecords(Tail(objs), typ,
                     IF o.type = typ /\ o.ok THEN DictPut(acc, EntryOf(o)) ELSE acc)

\* step 2: one part per GameObject that has a Transform and a SpriteRenderer
PartOf(go_data, transform, renderer) ==
    [name |-> go_data.name,
     game_object_id |-> go_data.id,
     transform_id |-> transform.id,
     sprite_renderer_id |-> renderer.id,
     position |-> transform.local_position,
     sorting_order |-> renderer.sorting_order,
     sprite_id |-> renderer.sprite,
     initial_color |-> renderer.color,
     color_corrected |-> FALSE]

RECURSIVE LinkComponents(_, _, _, _)
LinkComponents(gos, trs, rends, acc) ==
    IF gos = <<>> THEN acc
    ELSE LET go_data == Head(gos)
             transform == FirstWithGameObject(trs, go_data.id)
             renderer == FirstWithGameObject(rends, go_data.id)
         IN  LinkComponents(Tail(gos), trs, rends,
                 IF transform # None /\ renderer # None
                 THEN Append(acc, PartOf(go_data, transform[1], renderer[1]))
                 ELSE acc)


(***************************************************************************)
(* Step 3: build_hierarchy                                                 *)
(* The result is [kind |-> "None"], a node, or [kind |-> "RecursionError"] *)
(* when the calls nest deeper than the interpreter allows; the exception   *)
(* passes through every enclosing call.                                    *)
(***************************************************************************)
UnknownName == <<"U", "n", "k", "n", "o", "w", "n">>

RECURSIVE build_hierarchy(_, _)
RECURSIVE BuildChildren(_, _, _)

build_hierarchy(transform_id, level) ==
    IF level >= RecursionLimit THEN [kind |-> "RecursionError"]
    ELSE
    LET transform == DictGet(transforms, transform_id) IN
    IF transform = None THEN [kind |-> "None"]
    ELSE
    LET go_id == transform[1].game_object
        game_object == DictGet(game_objects, go_id)
        sprite_renderer == FirstWithGameObject(sprite_renderers, go_id)
        children == BuildChildren(transform[1].children, level, <<>>)
    IN  IF children = None THEN [kind |-> "RecursionError"]
        ELSE [kind |-> "node",
              name |-> IF game_object = None THEN UnknownName ELSE game_object[1].name,
              game_object_id |-> go_id,
              transform_id |-> transform_id,
              level |-> level,
              position |-> transform[1].local_position,
              has_sprite |-> sprite_renderer # None,
              sorting_order |-> IF sprite_renderer = None THEN 0
                                ELSE sprite_renderer[1].sorting_order,
              children |-> children[1]]

\* BuildChildren that leaves the loop at the first child id that does not resolve
RECURSIVE BuildChildren_StopAtUnresolved(_, _, _)
BuildChildren_StopAtUnresolved(child_refs, level, acc) ==
    IF child_refs = <<>> THEN Some(acc)
    ELSE LET child_id == Head(child_refs) IN
         IF child_id = 0 THEN BuildChildren_StopAtUnresolved(Tail(child_refs), level, acc)
         ELSE LET child_node == build_hierarchy(child_id, level + 1) IN
              CASE child_node.kind = "RecursionError" -> None
                [] child_node.kind = "None" -> Some(acc)
                [] OTHER -> BuildChildren_StopAtUnresolved(Tail(child_refs), level,
                                                           Append(acc, child_node))

\* the loop over transform["children"]: Some(list of child nodes), or None when a call raised
BuildChildren(child_refs, level, acc) ==
    IF child_refs = <<>> THEN Some(acc)
    ELSE LET child_id == Head(child_refs) IN
         IF child_id = 0 THEN BuildChildren(Tail(child_refs), level, acc)
         ELSE LET child_node == build_hierarchy(child_id, level + 1) IN
              CASE child_node.kind = "RecursionError" -> None
                [] child_node.kind = "None" -> BuildChildren(Tail(child_refs), level, acc)
                [] OTHER -> BuildChildren(Tail(child_refs), level, Append(acc, child_node))

\* root_transforms = [t for t in transforms.values() if t["parent"] == 0]
root_transforms == SelectSeq(transforms, LAMBDA t : t.parent = 0)

\* the loop over root_transforms: Some(list of trees), or None when a call raised
RECURSIVE BuildRoots(_, _)
BuildRoots(roots, acc) ==
    IF roots = <<>> THEN Some(acc)
    ELSE LET h == build_hierarchy(Head(roots).id, 0) IN
         CASE h.kind = "RecursionError" -> None
           [] h.kind = "None" -> BuildRoots(Tail(roots), acc)
           [] OTHER -> BuildRoots(Tail(roots), Append(acc, h))

(***************************************************************************)
(* Step 4: the sprite loop                                                 *)
(***************************************************************************)
\* for part in character_parts: if part["sprite_id"] == path_id: ... break
FirstPartWithSprite(parts, path_id) ==
    IF \E i \in 1..Len(parts) : parts[i].sprite_id = path_id
    THEN CHOOSE i \in 1..Len(parts) :
            /\ parts[i].sprite_id = path_id
            /\ \A j \in 1..(i-1) : parts[j].sprite_id # path_id
    ELSE 0

FilePut(fs, path, image) ==
    IF \E i \in 1..Len(fs) : fs[i].path = path
    THEN [i \in 1..Len(fs) |-> IF fs[i].path = path THEN [path |-> path, image |-> image] ELSE fs[i]]
    ELSE Append(fs, [path |-> path, image |-> image])

\* one iteration; acc = [parts, mapping, files, output_path, raised]
\* output_path is the local variable of that name: None until first assigned.
\* progress_callback is given, as in the GUI: its message reads output_path
\* after the try block, also when this iteration did not assign it.
SpriteIteration(o, acc) ==
    IF acc.raised # None THEN acc
    ELSE IF ~o.ok THEN acc                      \* except: continue
    ELSE IF o.has_image THEN
        LET path == output_path_of(o.m_Name)
            k == FirstPartWithSprite(acc.parts, o.path_id)
            correct == k # 0 /\ ~is_default_color(acc.parts[k].initial_color)
        IN  [parts |-> IF correct
                       THEN [acc.parts EXCEPT ![k].color_corrected = TRUE]
                       ELSE acc.parts,
             mapping |-> DictPut(acc.mapping,
                            [id |-> o.path_id, name |-> o.m_Name,
                             file_path |-> path, size |-> o.image.size]),
             files |-> FilePut(acc.files, path,
                            IF correct
                            THEN apply_color_correction(o.image, acc.parts[k].initial_color)
                            ELSE o.image),
             output_path |-> Some(path),
             raised |-> None]
    ELSE IF acc.output_path = None
         THEN [acc EXCEPT !.raised = Some("UnboundLocalError")]
         ELSE acc

RECURSIVE SpriteLoop(_, _)
SpriteLoop(objs, acc) ==
    IF objs = <<>> THEN acc
    ELSE SpriteLoop(Tail(objs),
                    IF Head(objs).type = "Sprite" THEN SpriteIteration(Head(objs), acc) ELSE acc)

(***************************************************************************)
(* categorize_part (lines 415-437)                                         *)
(***************************************************************************)
UpperCase == <<"A", "B", "C", "D", "E", "F", "G", "H", "I", "J", "K", "L", "M",
               "N", "O", "P", "Q", "R", "S", "T", "U", "V", "W", "X", "Y", "Z">>
LowerCase == <<"a", "b", "c", "d", "e", "f", "g", "h", "i", "j", "k", "l", "m",
               "n", "o", "p", "q", "r", "s", "t", "u", "v", "w", "x", "y", "z">>

\* str.lower(), character by character
Lower(name) ==
    [i \in 1..Len(name) |->
        IF \E k \in 1..26 : UpperCase[k] = name[i]
        THEN LowerCase[CHOOSE k \in 1..26 : UpperCase[k] = name[i]]
        ELSE name[i]]

\* word in name
Contains(name, word) ==
    \E i \in 1..(Len(name) - Len(word) + 1) : SubSeq(name, i, i + Len(word) - 1) = word

\* categorize_part with the rule for 'arm' tried before the rules for the two sides
categorize_part_ArmFirst(name) ==
    LET name_lower == Lower(name)
        has(word) == Contains(name_lower, word)
    IN  IF has(<<"b", "o", "d", "y">>) \/ has(<<"t", "o", "r", "s", "o">>) THEN "body"
        ELSE IF has(<<"h", "e", "a", "d">>) \/ has(<<"f", "a", "c", "e">>) THEN "head"
        ELSE IF has(<<"a", "r", "m">>) THEN "arms"
        ELSE IF has(<<"a", "r", "m", "l">>) \/ has(<<"l", "e", "f", "t", "a", "r", "m">>) THEN "arm_left"
        ELSE IF has(<<"a", "r", "m", "r">>) \/ has(<<"r", "i", "g", "h", "t", "a", "r", "m">>) THEN "arm_right"
        ELSE IF has(<<"e", "y", "e">>) THEN "eyes"
        ELSE IF has(<<"m", "o", "u", "t", "h">>) THEN "mouth"
        ELSE IF has(<<"h", "a", "i", "r">>) THEN "hair"
        ELSE IF has(<<"b", "l", "e", "n", "d">>) \/ has(<<"e", "f", "f", "e", "c", "t">>) \/ has(<<"s", "h", "a", "d", "o", "w">>) THEN "effects"
        ELSE "other"

categorize_part(name) ==
    LET name_lower == Lower(name)
        has(word) == Contains(name_lower, word)
    IN  IF has(<<"b", "o", "d", "y">>) \/ has(<<"t", "o", "r", "s", "o">>) THEN "body"
        ELSE IF has(<<"h", "e", "a", "d">>) \/ has(<<"f", "a", "c", "e">>) THEN "head"
        ELSE IF has(<<"a", "r", "m", "l">>) \/ has(<<"l", "e", "f", "t", "a", "r", "m">>) THEN "arm_left"
        ELSE IF has(<<"a", "r", "m", "r">>) \/ has(<<"r", "i", "g", "h", "t", "a", "r", "m">>) THEN "arm_right"
        ELSE IF has(<<"a", "r", "m">>) THEN "arms"
        ELSE IF has(<<"e", "y", "e">>) THEN "eyes"
        ELSE IF has(<<"m", "o", "u", "t", "h">>) THEN "mouth"
        ELSE IF has(<<"h", "a", "i", "r">>) THEN "hair"
        ELSE IF has(<<"b", "l", "e", "n", "d">>) \/ has(<<"e", "f", "f", "e", "c", "t">>) \/ has(<<"s", "h", "a", "d", "o", "w">>) THEN "effects"
        ELSE "other"

(***************************************************************************)
(* Step 5: the flat part list                                              *)
(***************************************************************************)
PartData(part, sprite_info) ==
    [name |-> part.name,
     sprite_name |-> sprite_info.name,
     sprite_path |-> sprite_info.file_path,
     sprite_size |-> sprite_info.size,
     position |-> part.position,
     sorting_order |-> part.sorting_order,
     category |-> categorize_part(part.name),
     initial_color |-> part.initial_color,
     color_corrected |-> part.color_corrected,
     custom_color |-> part.initial_color,
     game_object_id |-> part.game_object_id,   \* not in the code's entry: the part's origin,
     sprite_id |-> part.sprite_id]             \* kept to state properties of the list

\* LookupSprite falling back to the first sprite when the id is unknown
LookupSprite_Fallback(mapping, sprite_id) ==
    IF DictGet(mapping, sprite_id) = None /\ mapping # <<>>
    THEN Some(mapping[1])
    ELSE DictGet(mapping, sprite_id)

\* extraction_results["sprite_mapping"].get(part["sprite_id"])
LookupSprite(mapping, sprite_id) == DictGet(mapping, sprite_id)

RECURSIVE GenerateData(_, _, _)
GenerateData(parts, mapping, acc) ==
    IF parts = <<>> THEN acc
    ELSE LET sprite_info == LookupSprite(mapping, Head(parts).sprite_id) IN
         GenerateData(Tail(parts), mapping,
                      IF sprite_info # None
                      THEN Append(acc, PartData(Head(parts), sprite_info[1]))
                      ELSE acc)


(***************************************************************************)
(* The bundles the extraction is run on                                    *)
(* Two GameObjects (1, 2), two Transforms (11, 12), two SpriteRenderers    *)
(* (21, 22), two Sprites (31, 32) and a Texture2D (41); 99 is a path id    *)
(* that no record of the bundle has.                                       *)
(***************************************************************************)
NameArm == <<"a", "r", "m">>
NameEye == <<"e", "y", "e">>
SpriteNameA == <<"a", "_", "b">>
SpriteNameB == <<"a", ":", "b">>
SpriteNameC == <<"c">>
HalfRed == [r |-> 5000, g |-> ColorUnit, b |-> ColorUnit, a |-> ColorUnit]

\* bundles that vary the transform graph
TopologyChoices ==
    [go2 : {"absent", "other"},
     t11go : {0, 1}, t11parent : {0, 99},
     t11children : {<<>>, <<12>>, <<99, 12>>, <<11>>, <<0, 12, 12>>},
     t12go : {1, 2}, t12parent : {0, 11, 99},
     t12children : {<<>>, <<11>>, <<12>>},
     r21go : {1}, r21sprite : {0, 31}, r21color : {DefaultColor},
     r22go : {2}, r22sprite : {32},
     s31 : {"ok"}, s32name : {SpriteNameC}, s32 : {"ok"}]

\* bundles that vary what refers to what
JoinChoices ==
    [go2 : {"absent", "same", "other", "unreadable"},
     t11go : {0, 1}, t11parent : {0},
     t11children : {<<12>>},
     t12go : {1, 2}, t12parent : {11},
     t12children : {<<>>},
     r21go : {0, 1}, r21sprite : {0, 31, 99}, r21color : {DefaultColor, HalfRed},
     r22go : {1, 2}, r22sprite : {31, 32},
     s31 : {"ok", "raises", "noimage"},
     s32name : {SpriteNameA, SpriteNameB, SpriteNameC}, s32 : {"ok", "raises"}]

Ref(id) == IF id = 0 THEN None ELSE Some(id)

SpriteRecord(id, name, outcome, image) ==
    [type |-> "Sprite", path_id |-> id, ok |-> outcome # "raises",
     m_Name |-> name, has_image |-> outcome = "ok", image |-> image]

EnvOf(c) ==
    <<[type |-> "GameObject", path_id |-> 1, ok |-> TRUE, m_Name |-> NameArm]>>
    \o (IF c.go2 = "absent" THEN <<>>
        ELSE <<[type |-> "GameObject", path_id |-> 2, ok |-> c.go2 # "unreadable",
                m_Name |-> IF c.go2 = "same" THEN NameArm ELSE NameEye]>>)
    \o <<[type |-> "Transform", path_id |-> 11, ok |-> TRUE,
          m_GameObject |-> Ref(c.t11go), m_Father |-> Ref(c.t11parent),
          m_Children |-> c.t11children, m_LocalPosition |-> [x |-> 100, y |-> -50]],
         [type |-> "Transform", path_id |-> 12, ok |-> TRUE,
          m_GameObject |-> Ref(c.t12go), m_Father |-> Ref(c.t12parent),
          m_Children |-> c.t12children, m_LocalPosition |-> [x |-> 0, y |-> 0]],
         [type |-> "SpriteRenderer", path_id |-> 21, ok |-> TRUE,
          m_GameObject |-> Ref(c.r21go), m_Sprite |-> Ref(c.r21sprite),
          m_SortingOrder |-> 3, m_Color |-> c.r21color],
         [type |-> "SpriteRenderer", path_id |-> 22, ok |-> TRUE,
          m_GameObject |-> Ref(c.r22go), m_Sprite |-> Ref(c.r22sprite),
          m_SortingOrder |-> -1, m_Color |-> DefaultColor],
         SpriteRecord(31, SpriteNameA, c.s31, Solid(2, 1, <<200, 100, 50, 255>>)),
         SpriteRecord(32, c.s32name, c.s32, Solid(1, 1, <<10, 20, 30, 128>>)),
         [type |-> "Texture2D", path_id |-> 41, ok |-> TRUE]>>

(***************************************************************************)
(* The compositor's caller, while no compositor call is modelled           *)
(***************************************************************************)
NoCall == [kind |-> "nocall"]

\* {}: a dict keyed by part names is a function on the set of its keys
EmptyDict == [n \in {} |-> 0]

CatIdle ==
    /\ part_name = <<>>
    /\ category = None

GuiIdle ==
    /\ gui_selected_sprites = <<>>
    /\ shown_parts = <<>>
    /\ check_vars = <<>>
    /\ auto_update = TRUE
    /\ preview_update_timer = None
    /\ after_queue = {}
    /\ next_after = 1
    /\ extract_worker = [at |-> "none", results |-> <<>>, runs |-> 0]
    /\ threads = [started |-> 0, running |-> <<>>, shown |-> 0]
    /\ saved_file = None

TintIdle ==
    /\ tint_heap = <<>>
    /\ tint_arg = 0
    /\ tint_factors = DefaultColor
    /\ tint_fn = "none"
    /\ tint_ret = None

CompIdle ==
    /\ sprite_data = <<>>
    /\ selected_sprites = None
    /\ custom_depths = EmptyDict
    /\ custom_colors = EmptyDict
    /\ base_canvas_size = <<2000, 4000>>
    /\ size_ret = None
    /\ image_ret = NoCall
    /\ painted = <<>>
    /\ calls = 0

(***************************************************************************)
(* extract_character_parts as a state machine                              *)
(***************************************************************************)
InitExtract ==
    /\ env \in {EnvOf(c) : c \in TopologyChoices \cup JoinChoices}
    /\ pc = "step1"
    /\ game_objects = <<>>
    /\ transforms = <<>>
    /\ sprite_renderers = <<>>
    /\ character_parts = <<>>
    /\ hierarchy = <<>>
    /\ sprite_mapping = <<>>
    /\ files = <<>>
    /\ transform_data = <<>>
    /\ CompIdle
    /\ TintIdle
    /\ GuiIdle
    /\ CatIdle

\* step 1 (lines 112-155)
BuildMappings ==
    /\ pc = "step1"
    /\ game_objects' = ReadRecords(env, "GameObject", <<>>)
    /\ transforms' = ReadRecords(env, "Transform", <<>>)
    /\ sprite_renderers' = ReadRecords(env, "SpriteRenderer", <<>>)
    /\ pc' = "step2"
    /\ UNCHANGED <<env, character_parts, hierarchy, sprite_mapping, files, transform_data>>
    /\ UNCHANGED compVars
    /\ UNCHANGED <<tintVars, catVars, guiVars>>

\* step 2 (lines 160-188)
Link ==
    /\ pc = "step2"
    /\ character_parts' = LinkComponents(game_objects, transforms, sprite_renderers, <<>>)
    /\ pc' = "step3"
    /\ UNCHANGED <<env, game_objects, transforms, sprite_renderers, hierarchy,
                   sprite_mapping, files, transform_data>>
    /\ UNCHANGED compVars
    /\ UNCHANGED <<tintVars, catVars, guiVars>>

\* step 3 (lines 193-233); nothing in the method catches a RecursionError
BuildHierarchy ==
    /\ pc = "step3"
    /\ LET trees == BuildRoots(root_transforms, <<>>) IN
       IF trees = None
       THEN /\ pc' = "RecursionError"
            /\ UNCHANGED hierarchy
       ELSE /\ pc' = "step4"
            /\ hierarchy' = trees[1]
    /\ UNCHANGED <<env, game_objects, transforms, sprite_renderers, character_parts,
                   sprite_mapping, files, transform_data>>
    /\ UNCHANGED compVars
    /\ UNCHANGED <<tintVars, catVars, guiVars>>

\* step 4 (lines 238-283)
ExtractSprites ==
    /\ pc = "step4"
    /\ LET r == SpriteLoop(env, [parts |-> character_parts, mapping |-> <<>>,
                                 files |-> <<>>, output_path |-> None, raised |-> None])
       IN  /\ character_parts' = r.parts
           /\ sprite_mapping' = r.mapping
           /\ files' = r.files
           /\ pc' = IF r.raised = None THEN "step5" ELSE r.raised[1]
    /\ UNCHANGED <<env, game_objects, transforms, sprite_renderers, hierarchy, transform_data>>
    /\ UNCHANGED compVars
    /\ UNCHANGED <<tintVars, catVars, guiVars>>

\* step 5 (lines 288-305)
GenerateTransformData ==
    /\ pc = "step5"
    /\ transform_data' = GenerateData(character_parts, sprite_mapping, <<>>)
    /\ pc' = "step6"
    /\ UNCHANGED <<env, game_objects, transforms, sprite_renderers, character_parts,
                   hierarchy, sprite_mapping, files>>
    /\ UNCHANGED compVars
    /\ UNCHANGED <<tintVars, catVars, guiVars>>

\* step 6 (lines 310-325): the results are written out and returned
SaveResults ==
    /\ pc = "step6"
    /\ pc' = "done"
    /\ UNCHANGED <<env, game_objects, transforms, sprite_renderers, character_parts,
                   hierarchy, sprite_mapping, files, transform_data>>
    /\ UNCHANGED compVars
    /\ UNCHANGED <<tintVars, catVars, guiVars>>

NextExtract ==
    \/ BuildMappings
    \/ Link
    \/ BuildHierarchy
    \/ ExtractSprites
    \/ GenerateTransformData
    \/ SaveResults

SpecExtract == InitExtract /\ [][NextExtract]_vars


(***************************************************************************)
(* SpriteCompositor                                                        *)
(***************************************************************************)
\* SpriteCompositor.ratio
ratio == 100

\* int(a / b) for b > 0: Python's int() truncates towards zero
TruncDiv(a, b) == IF a >= 0 THEN a \div b ELSE -((-a) \div b)

\* Image.open(part["sprite_path"]): the image saved at the path, None when
\* the open raises (no such file)
OpenImage(path) ==
    IF \E i \in 1..Len(files) : files[i].path = path
    THEN Some(files[CHOOSE i \in 1..Len(files) : files[i].path = path].image)
    ELSE None

\* IsSelected that lets every part through
IsSelected_All(part, selected) == TRUE

\* part["name"] in selected_sprites
IsSelected(part, selected) == part.name \in selected

\* the parts calculate_canvas_size measures: selected, and the open succeeds
Measured(parts, selected) ==
    {i \in 1..Len(parts) : /\ IsSelected(parts[i], selected)
                           /\ OpenImage(parts[i].sprite_path) # None}

\* lines 465-500; lengths along x and y are in 1/PosScale pixel until the int()
calculate_canvas_size(parts, selected) ==
    IF parts = <<>> \/ selected = None \/ selected = Some({}) THEN base_canvas_size
    ELSE
    LET M == Measured(parts, selected[1])
        img(i) == OpenImage(parts[i].sprite_path)[1]
        pos_x(i) == parts[i].position.x * ratio
        pos_y(i) == parts[i].position.y * (-ratio)
        left(i) == pos_x(i) - (img(i).size[1] \div 2) * PosScale
        right(i) == pos_x(i) + (img(i).size[1] \div 2) * PosScale
        top(i) == pos_y(i) - (img(i).size[2] \div 2) * PosScale
        bottom(i) == pos_y(i) + (img(i).size[2] \div 2) * PosScale
        min_x == CHOOSE v \in {left(i) : i \in M} : \A i \in M : v <= left(i)
        max_x == CHOOSE v \in {right(i) : i \in M} : \A i \in M : v >= right(i)
        min_y == CHOOSE v \in {top(i) : i \in M} : \A i \in M : v <= top(i)
        max_y == CHOOSE v \in {bottom(i) : i \in M} : \A i \in M : v >= bottom(i)
    IN  IF M = {} THEN base_canvas_size
        ELSE <<Max(2000, TruncDiv(max_x - min_x, PosScale) + 400),
               Max(4000, TruncDiv(max_y - min_y, PosScale) + 400)>>

\* the key of the sort (lines 513-522): the overrides count only when one
\* of them is non-zero (any(custom_depths.values()))
SortKey(part, depths) ==
    IF (\E n \in DOMAIN depths : depths[n] # 0) /\ part.name \in DOMAIN depths
    THEN depths[part.name]
    ELSE part.sorting_order

\* sorted(list, key=...): a stable sort, here by insertion from the left.
\* The list is held as the indices of its parts in the part list, so that
\* two equal entries of the part list stay apart.
RECURSIVE SortedBy(_, _, _, _)
SortedBy(parts, todo, depths, acc) ==
    IF todo = <<>> THEN acc
    ELSE LET x == Head(todo)
             k == Cardinality({i \in 1..Len(acc) :
                     SortKey(parts[acc[i]], depths) <= SortKey(parts[x], depths)})
         IN  SortedBy(parts, Tail(todo), depths,
                      SubSeq(acc, 1, k) \o <<x>> \o SubSeq(acc, k + 1, Len(acc)))

\* apply_color_adjustment (lines 564-581)
apply_color_adjustment(image, color_factors) ==
    [size |-> image.size,
     px   |-> [p \in DOMAIN image.px |->
                 <<ScaleChannel(image.px[p][1], color_factors.r),
                   ScaleChannel(image.px[p][2], color_factors.g),
                   ScaleChannel(image.px[p][3], color_factors.b),
                   ScaleChannel(image.px[p][4], color_factors.a)>>]]

\* lines 537-540: some channel differs from 1.0 by more than 0.001
ColorChanged(c) ==
    \/ 1000 * Abs(c.r - ColorUnit) > ColorUnit
    \/ 1000 * Abs(c.g - ColorUnit) > ColorUnit
    \/ 1000 * Abs(c.b - ColorUnit) > ColorUnit
    \/ 1000 * Abs(c.a - ColorUnit) > ColorUnit

\* lines 533-541: the sprite as painted
Tinted(part, image, colors) ==
    IF part.name \in DOMAIN colors /\ ColorChanged(colors[part.name])
    THEN apply_color_adjustment(image, colors[part.name])
    ELSE image

\* lines 544-549: where the sprite's top left pixel goes
Placement(part, image, canvas_size) ==
    LET center_x == canvas_size[1] \div 2
        center_y == canvas_size[2] \div 2
        pos_x == TruncDiv(part.position.x * ratio + center_x * PosScale, PosScale)
        pos_y == TruncDiv(part.position.y * (-ratio) + center_y * PosScale, PosScale)
    IN  <<pos_x - image.size[1] \div 2, pos_y - image.size[2] \div 2>>

(***************************************************************************)
(* Pillow's pixel arithmetic                                               *)
(***************************************************************************)
Transparent == <<0, 0, 0, 0>>

\* SHIFTFORDIV255(a) = ((a >> 8) + a) >> 8
ShiftForDiv255(a) == ((a \div 256) + a) \div 256

\* Image.alpha_composite, one pixel: src over dst
Over(dst, src) ==
    IF src[4] = 0 THEN dst
    ELSE LET blend == dst[4] * (255 - src[4])
             outa255 == src[4] * 255 + blend
             coef1 == (src[4] * 255 * 255 * 128) \div outa255
             coef2 == 255 * 128 - coef1
             ch(c) == ShiftForDiv255(src[c] * coef1 + dst[c] * coef2 + 128 * 128) \div 128
         IN  <<ch(1), ch(2), ch(3), ShiftForDiv255(outa255 + 128)>>

\* Image.paste(im, box, mask=im), one pixel: every channel blended by the mask
PasteMasked(dst, src) ==
    LET ch(c) == ShiftForDiv255(dst[c] * (255 - src[4]) + src[c] * src[4] + 128)
    IN  <<ch(1), ch(2), ch(3), ch(4)>>

\* the test of line 552 taken as "some pixel is not fully opaque"
HasVisiblePixel_NonOpaque(image) == \E p \in DOMAIN image.px : image.px[p][4] # 255

\* line 552: sprite_img.getchannel('A').getbbox() is not None
HasVisiblePixel(image) == \E p \in DOMAIN image.px : image.px[p][4] # 0

\* lines 552-557: the branch taken for a sprite (its mode is always RGBA)
BlendStrategy(image) == IF HasVisiblePixel(image) THEN "alpha_composite" ELSE "paste"

\* A canvas is [kind |-> "image", size |-> <<w, h>>, px |-> f]: f holds the
\* pixels that are not <<0, 0, 0, 0>>, every other pixel of the raster is.
PixelAt(canvas, p) == IF p \in DOMAIN canvas.px THEN canvas.px[p] ELSE Transparent

\* NewCanvas that keeps the raster of the previous call
NewCanvas_Reused(canvas_size) ==
    IF image_ret.kind = "image" /\ image_ret.size = canvas_size
    THEN image_ret
    ELSE [kind |-> "image", size |-> canvas_size, px |-> <<>>]

\* Image.new('RGBA', canvas_size, (0, 0, 0, 0))
NewCanvas(canvas_size) == [kind |-> "image", size |-> canvas_size, px |-> <<>>]

\* lines 551-557: the sprite put on the canvas at the placement, clipped to the raster
PaintSprite(canvas, image, at) ==
    LET covered == {<<at[1] + q[1], at[2] + q[2]>> : q \in
                           {q \in DOMAIN image.px :
                               /\ at[1] + q[1] >= 0 /\ at[1] + q[1] < canvas.size[1]
                               /\ at[2] + q[2] >= 0 /\ at[2] + q[2] < canvas.size[2]}}
        src(p) == image.px[<<p[1] - at[1], p[2] - at[2]>>]
        new(p) == IF p \notin covered THEN canvas.px[p]
                  ELSE IF BlendStrategy(image) = "alpha_composite"
                       THEN Over(PixelAt(canvas, p), src(p))
                  ELSE PasteMasked(PixelAt(canvas, p), src(p))
        keep == {p \in DOMAIN canvas.px \cup covered : new(p) # Transparent}
    IN  [canvas EXCEPT !.px = [p \in keep |-> new(p)]]

\* PaintAll that gives up at the first part whose open raises
RECURSIVE PaintAll_StopAtFailure(_, _, _, _)
PaintAll_StopAtFailure(parts, order, colors, canvas) ==
    IF order = <<>> THEN canvas
    ELSE LET part == parts[Head(order)]
             opened == OpenImage(part.sprite_path)
         IN  IF opened = None THEN canvas
             ELSE LET sprite_img == Tinted(part, opened[1], colors) IN
                  PaintAll_StopAtFailure(parts, Tail(order), colors,
                           PaintSprite(canvas, sprite_img,
                                       Placement(part, sprite_img, canvas.size)))

\* lines 529-560: a part whose open raises is reported and skipped
RECURSIVE PaintAll(_, _, _, _)
PaintAll(parts, order, colors, canvas) ==
    IF order = <<>> THEN canvas
    ELSE LET part == parts[Head(order)]
             opened == OpenImage(part.sprite_path)
         IN  IF opened = None THEN PaintAll(parts, Tail(order), colors, canvas)
             ELSE LET sprite_img == Tinted(part, opened[1], colors) IN
                  PaintAll(parts, Tail(order), colors,
                           PaintSprite(canvas, sprite_img,
                                       Placement(part, sprite_img, canvas.size)))

\* selected_sprites = [part["name"] for part in sprite_data] when None
EffectiveSelection(parts, selected) ==
    IF selected = None THEN {parts[i].name : i \in 1..Len(parts)} ELSE selected[1]

\* [part for part in sprite_data if part["name"] in selected_sprites], as indices
SelectedIndices(parts, selected) ==
    SelectSeq([i \in 1..Len(parts) |-> i],
              LAMBDA i : IsSelected(parts[i], EffectiveSelection(parts, selected)))

\* lines 512-522: the indices of the selected parts in painting order
sorted_parts(parts, selected, depths) ==
    SortedBy(parts, SelectedIndices(parts, selected), depths, <<>>)

\* lines 502-562; [kind |-> "None"] is the return of None
create_composite_image(parts, selected, depths, colors) ==
    IF parts = <<>> THEN [kind |-> "None"]
    ELSE LET sel == Some(EffectiveSelection(parts, selected))
             canvas_size == calculate_canvas_size(parts, sel)
         IN  PaintAll(parts, sorted_parts(parts, selected, depths), colors,
                      NewCanvas(canvas_size))

(***************************************************************************)
(* The Streamlit compositor (Source/Streamlit/web.py)                      *)
(* Its calculate_canvas_size and its sort are the same code as above; it   *)
(* takes no colour overrides, starts from an opaque white canvas and       *)
(* pastes every sprite with the sprite as its own mask.                    *)
(***************************************************************************)
\* A web canvas is [kind |-> "image", size |-> <<w, h>>, bg |-> c, px |-> f]:
\* f holds the pixels that differ from c, every other pixel of the raster is c.
WebPixelAt(canvas, p) == IF p \in DOMAIN canvas.px THEN canvas.px[p] ELSE canvas.bg

\* Image.new('RGBA', canvas_size, (255, 255, 255, 255))
WebNewCanvas(canvas_size) ==
    [kind |-> "image", size |-> canvas_size, bg |-> <<255, 255, 255, 255>>, px |-> <<>>]

\* composite.paste(sprite_img, (placement_x, placement_y), sprite_img)
WebPaintSprite(canvas, image, at) ==
    LET covered == {<<at[1] + q[1], at[2] + q[2]>> : q \in
                           {q \in DOMAIN image.px :
                               /\ at[1] + q[1] >= 0 /\ at[1] + q[1] < canvas.size[1]
                               /\ at[2] + q[2] >= 0 /\ at[2] + q[2] < canvas.size[2]}}
        src(p) == image.px[<<p[1] - at[1], p[2] - at[2]>>]
        new(p) == IF p \notin covered THEN canvas.px[p]
                  ELSE PasteMasked(WebPixelAt(canvas, p), src(p))
        keep == {p \in DOMAIN canvas.px \cup covered : new(p) # canvas.bg}
    IN  [canvas EXCEPT !.px = [p \in keep |-> new(p)]]

\* the loop over sorted_parts; a part whose open raises is reported and skipped
RECURSIVE WebPaintAll(_, _, _)
WebPaintAll(parts, order, canvas) ==
    IF order = <<>> THEN canvas
    ELSE LET part == parts[Head(order)]
             opened == OpenImage(part.sprite_path)
         IN  IF opened = None THEN WebPaintAll(parts, Tail(order), canvas)
             ELSE WebPaintAll(parts, Tail(order),
                              WebPaintSprite(canvas, opened[1],
                                             Placement(part, opened[1], canvas.size)))

\* web.py create_composite_image; [kind |-> "None"] is the return of None
web_create_composite_image(parts, selected, depths) ==
    IF parts = <<>> THEN [kind |-> "None"]
    ELSE LET sel == Some(EffectiveSelection(parts, selected))
             canvas_size == calculate_canvas_size(parts, sel)
         IN  WebPaintAll(parts, sorted_parts(parts, selected, depths),
                         WebNewCanvas(canvas_size))

(***************************************************************************)
(* The compositor and its caller as a state machine                        *)
(* The caller holds a part list, changes the selection, the overrides and  *)
(* the configured minimum size, and calls the two methods. size_ret,       *)
(* image_ret and painted are what the calls returned for the arguments as  *)
(* they are now: the caller drops them when it changes an argument.        *)
(***************************************************************************)
\* part lists have at most MaxParts parts
MaxParts == 2
\* create_composite_image is called at most MaxCalls times on the same arguments
MaxCalls == 2

NameA == <<"a">>
NameB == <<"b">>
Names == {NameA, NameB}

PathOpaque == <<"sprites", "opaque", ".png">>
PathSoft == <<"sprites", "soft", ".png">>
PathMixed == <<"sprites", "mixed", ".png">>

\* the sprites directory; nothing is saved at sprites/missing.png
Disk ==
    <<[path |-> PathOpaque, image |-> Solid(2, 2, <<200, 0, 0, 255>>)],
      [path |-> PathSoft, image |-> Solid(1, 1, <<0, 0, 200, 128>>)],
      [path |-> PathMixed,
       image |-> [size |-> <<3, 1>>,
                  px |-> [q \in (0..2) \X {0} |->
                            CASE q[1] = 0 -> <<0, 200, 0, 255>>
                              [] q[1] = 1 -> <<0, 100, 100, 100>>
                              [] OTHER -> <<50, 50, 50, 0>>]]]>>

Part(name, path, x, y, order) ==
    [name |-> name, sprite_path |-> path, position |-> [x |-> x, y |-> y],
     sorting_order |-> order]

\* positions are in 1/PosScale unit: 2 is one pixel, 4200 is 2100 pixels
PartPool ==
    {Part(NameA, PathOpaque, 0, 0, 1),
     Part(NameB, PathSoft, 0, 0, 2),
     Part(NameA, PathSoft, 1, 0, 1),
     Part(NameB, PathOpaque, 4200, 0, 1),
     Part(NameB, <<"sprites", "missing", ".png">>, 0, 0, 0),
     Part(NameA, PathMixed, -3, 3, 2)}

Selections == {None} \cup {Some(S) : S \in SUBSET Names}
DepthValues == {0, 3}
CanvasSizes == {<<2000, 4000>>, <<3000, 5000>>}

ExtractIdle ==
    /\ env = <<>>
    /\ pc = "idle"
    /\ game_objects = <<>>
    /\ transforms = <<>>
    /\ sprite_renderers = <<>>
    /\ character_parts = <<>>
    /\ hierarchy = <<>>
    /\ sprite_mapping = <<>>
    /\ transform_data = <<>>

\* SpriteCompositor.__init__ (lines 461-463), and a caller that has selected nothing
InitComp ==
    /\ ExtractIdle
    /\ files = Disk
    /\ sprite_data \in UNION {[1..n -> PartPool] : n \in 0..MaxParts}
    /\ selected_sprites = Some({})
    /\ custom_depths = EmptyDict
    /\ custom_colors = EmptyDict
    /\ base_canvas_size = <<2000, 4000>>
    /\ size_ret = None
    /\ image_ret = NoCall
    /\ painted = <<>>
    /\ calls = 0
    /\ TintIdle
    /\ GuiIdle
    /\ CatIdle

ForgetResults ==
    /\ size_ret' = None
    /\ image_ret' = NoCall
    /\ painted' = <<>>
    /\ calls' = 0

DictSet(d, n, v) == [k \in DOMAIN d \cup {n} |-> IF k = n THEN v ELSE d[k]]

SetSelection(S) ==
    /\ S # selected_sprites
    /\ selected_sprites' = S
    /\ ForgetResults
    /\ UNCHANGED <<sprite_data, custom_depths, custom_colors, base_canvas_size>>
    /\ UNCHANGED extractVars
    /\ UNCHANGED <<tintVars, catVars, guiVars>>

\* custom_depths[name] = depth
SetCustomDepth(n, d) ==
    /\ custom_depths' = DictSet(custom_depths, n, d)
    /\ custom_depths' # custom_depths
    /\ ForgetResults
    /\ UNCHANGED <<sprite_data, selected_sprites, custom_colors, base_canvas_size>>
    /\ UNCHANGED extractVars
    /\ UNCHANGED <<tintVars, catVars, guiVars>>

\* custom_depths = {}
ResetDepths ==
    /\ custom_depths # EmptyDict
    /\ custom_depths' = EmptyDict
    /\ ForgetResults
    /\ UNCHANGED <<sprite_data, selected_sprites, custom_colors, base_canvas_size>>
    /\ UNCHANGED extractVars
    /\ UNCHANGED <<tintVars, catVars, guiVars>>

\* custom_colors[name] = colour
SetCustomColor(n, c) ==
    /\ custom_colors' = DictSet(custom_colors, n, c)
    /\ custom_colors' # custom_colors
    /\ ForgetResults
    /\ UNCHANGED <<sprite_data, selected_sprites, custom_depths, base_canvas_size>>
    /\ UNCHANGED extractVars
    /\ UNCHANGED <<tintVars, catVars, guiVars>>

\* custom_colors = {}
ResetColors ==
    /\ custom_colors # EmptyDict
    /\ custom_colors' = EmptyDict
    /\ ForgetResults
    /\ UNCHANGED <<sprite_data, selected_sprites, custom_depths, base_canvas_size>>
    /\ UNCHANGED extractVars
    /\ UNCHANGED <<tintVars, catVars, guiVars>>

\* compositor.base_canvas_size = size
SetBaseCanvasSize(size) ==
    /\ size # base_canvas_size
    /\ base_canvas_size' = size
    /\ ForgetResults
    /\ UNCHANGED <<sprite_data, selected_sprites, custom_depths, custom_colors>>
    /\ UNCHANGED extractVars
    /\ UNCHANGED <<tintVars, catVars, guiVars>>

CallCalculateCanvasSize ==
    /\ size_ret = None
    /\ size_ret' = Some(calculate_canvas_size(sprite_data, selected_sprites))
    /\ UNCHANGED <<sprite_data, selected_sprites, custom_depths, custom_colors,
                   base_canvas_size, image_ret, painted, calls>>
    /\ UNCHANGED extractVars
    /\ UNCHANGED <<tintVars, catVars, guiVars>>

CallCreateCompositeImage ==
    /\ calls < MaxCalls
    /\ image_ret' = create_composite_image(sprite_data, selected_sprites,
                                           custom_depths, custom_colors)
    /\ painted' = IF sprite_data = <<>> THEN <<>>
                  ELSE sorted_parts(sprite_data, selected_sprites, custom_depths)
    /\ calls' = calls + 1
    /\ UNCHANGED <<sprite_data, selected_sprites, custom_depths, custom_colors,
                   base_canvas_size, size_ret>>
    /\ UNCHANGED extractVars
    /\ UNCHANGED <<tintVars, catVars, guiVars>>

NextComp ==
    \/ \E S \in Selections : SetSelection(S)
    \/ \E n \in Names, d \in DepthValues : SetCustomDepth(n, d)
    \/ ResetDepths
    \* HalfRed, or the override of a part whose alpha slider is at 0.0
    \/ \E c \in {HalfRed, [r |-> ColorUnit, g |-> ColorUnit, b |-> ColorUnit, a |-> 0]} :
           SetCustomColor(NameA, c)
    \/ ResetColors
    \/ \E size \in CanvasSizes : SetBaseCanvasSize(size)
    \/ CallCalculateCanvasSize
    \/ CallCreateCompositeImage

SpecComp == InitComp /\ [][NextComp]_vars

(***************************************************************************)
(* The Streamlit compositor and its caller: the same caller, without       *)
(* colour overrides, calling web.py's create_composite_image.              *)
(***************************************************************************)
WebCallCreateCompositeImage ==
    /\ calls < MaxCalls
    /\ image_ret' = web_create_composite_image(sprite_data, selected_sprites,
                                               custom_depths)
    /\ painted' = IF sprite_data = <<>> THEN <<>>
                  ELSE sorted_parts(sprite_data, selected_sprites, custom_depths)
    /\ calls' = calls + 1
    /\ UNCHANGED <<sprite_data, selected_sprites, custom_depths, custom_colors,
                   base_canvas_size, size_ret>>
    /\ UNCHANGED extractVars
    /\ UNCHANGED <<tintVars, catVars, guiVars>>

NextWeb ==
    \/ \E S \in Selections : SetSelection(S)
    \/ \E n \in Names, d \in DepthValues : SetCustomDepth(n, d)
    \/ ResetDepths
    \/ \E size \in CanvasSizes : SetBaseCanvasSize(size)
    \/ CallCalculateCanvasSize
    \/ WebCallCreateCompositeImage

SpecWeb == InitComp /\ [][NextWeb]_vars

(***************************************************************************)
(* The application (UnityExtractorGUI): an extraction, then the handlers   *)
(* of the part list on the extraction's transform_data and sprite files.   *)
(* pc is "gui" once the extraction thread has stored its results.          *)
(***************************************************************************)
\* bundles with two parts, the first one tinted or not, the second one
\* untinted and of the same sprite or of another
AppChoices ==
    [go2 : {"other"},
     t11go : {1}, t11parent : {0}, t11children : {<<12>>},
     t12go : {2}, t12parent : {11}, t12children : {<<>>},
     r21go : {1}, r21sprite : {31}, r21color : {DefaultColor, HalfRed},
     r22go : {2}, r22sprite : {31, 32},
     s31 : {"ok"}, s32name : {SpriteNameC}, s32 : {"ok"}]

\* UnityExtractorGUI.__init__ (lines 586-607), and an extraction about to start
InitApp ==
    /\ env \in {EnvOf(c) : c \in AppChoices}
    /\ pc = "step1"
    /\ game_objects = <<>>
    /\ transforms = <<>>
    /\ sprite_renderers = <<>>
    /\ character_parts = <<>>
    /\ hierarchy = <<>>
    /\ sprite_mapping = <<>>
    /\ files = <<>>
    /\ transform_data = <<>>
    /\ sprite_data = <<>>
    /\ selected_sprites = None
    /\ custom_depths = EmptyDict
    /\ custom_colors = EmptyDict
    /\ base_canvas_size = <<2000, 4000>>
    /\ size_ret = None
    /\ image_ret = NoCall
    /\ painted = <<>>
    /\ calls = 0
    /\ TintIdle
    /\ CatIdle
    /\ GuiIdle

\* name in self.selected_sprites
InList(list, n) == \E k \in 1..Len(list) : list[k] = n

\* list.remove(n): the first occurrence goes
RemoveFirst(list, n) ==
    LET first == CHOOSE k \in 1..Len(list) : list[k] = n /\ \A j \in 1..(k - 1) : list[j] # n
    IN  [k \in 1..(Len(list) - 1) |-> IF k < first THEN list[k] ELSE list[k + 1]]

\* the names of a list, as the compositor's selection argument
AsSelection(list) == Some({list[k] : k \in 1..Len(list)})

\* the timers armed in one run of the application
MaxTimers == 3

\* schedule_preview_update that arms a timer and leaves the pending one alone
schedule_preview_update_NoCancel ==
    /\ next_after <= MaxTimers
    /\ after_queue' = after_queue \cup {next_after}
    /\ preview_update_timer' = Some(next_after)
    /\ next_after' = next_after + 1

\* schedule_preview_update (lines 1283-1288): after_cancel of the timer armed
\* last (of a timer that has fired it does nothing), then after(300, ...)
schedule_preview_update ==
    /\ next_after <= MaxTimers
    /\ after_queue' = (IF preview_update_timer = None THEN after_queue
                       ELSE after_queue \ {preview_update_timer[1]}) \cup {next_after}
    /\ preview_update_timer' = Some(next_after)
    /\ next_after' = next_after + 1

\* if <condition>: self.schedule_preview_update()
ScheduleIf(condition) ==
    IF condition THEN schedule_preview_update
    ELSE UNCHANGED <<preview_update_timer, after_queue, next_after>>

\* setup_sprite_selection (lines 925-1125): the widgets are rebuilt from
\* extraction_results["transform_data"], each checkbox set from the selection
setup_sprite_selection(selection) ==
    /\ shown_parts' = sprite_data
    /\ check_vars' = [k \in 1..Len(sprite_data) |-> InList(selection, sprite_data[k].name)]

\* start_extraction.extract_thread, lines 803-811, one statement at a time:
\* where the thread is, and the statement it runs next
extract_thread ==
    LET at == extract_worker.at
        ThreadSteps == <<"results", "selected", "depths", "colors", "composite", "notify", "queued">>
        k == CHOOSE j \in 1..Len(ThreadSteps) : ThreadSteps[j] = at
    IN  /\ at \in {"results", "selected", "depths", "colors", "composite", "notify"}
        /\ sprite_data' = IF at = "results" THEN extract_worker.results ELSE sprite_data
        /\ gui_selected_sprites' = IF at = "selected" THEN <<>> ELSE gui_selected_sprites
        /\ custom_depths' = IF at = "depths" THEN EmptyDict ELSE custom_depths
        /\ custom_colors' = IF at = "colors" THEN EmptyDict ELSE custom_colors
        /\ image_ret' = IF at = "composite" THEN NoCall ELSE image_ret
        /\ painted' = IF at = "composite" THEN <<>> ELSE painted
        /\ extract_worker' = [extract_worker EXCEPT !.at = ThreadSteps[k + 1]]
        /\ UNCHANGED <<selected_sprites, base_canvas_size, size_ret, calls>>
        /\ UNCHANGED <<shown_parts, check_vars, auto_update, preview_update_timer,
                       after_queue, next_after, threads, saved_file>>
        /\ UNCHANGED <<extractVars, tintVars, catVars>>

\* on_extraction_complete (lines 818-821) -> show_extraction_results ->
\* show_character_results -> setup_sprite_selection (line 923)
on_extraction_complete ==
    /\ extract_worker.at = "queued"
    /\ extract_worker' = [extract_worker EXCEPT !.at = "none"]
    /\ setup_sprite_selection(gui_selected_sprites)
    /\ UNCHANGED <<gui_selected_sprites, auto_update, preview_update_timer, after_queue,
                   next_after, threads, saved_file>>
    /\ UNCHANGED <<extractVars, compVars, tintVars, catVars>>

\* extract_thread, line 802: extract_character_parts has returned its results
ReturnResults ==
    /\ pc = "done"
    /\ pc' = "gui"
    /\ extract_worker' = [at |-> "results", results |-> transform_data,
                          runs |-> extract_worker.runs + 1]
    /\ UNCHANGED <<env, game_objects, transforms, sprite_renderers, character_parts,
                   hierarchy, sprite_mapping, files, transform_data>>
    /\ UNCHANGED <<gui_selected_sprites, shown_parts, check_vars, auto_update,
                   preview_update_timer, after_queue, next_after, threads, saved_file>>
    /\ UNCHANGED <<compVars, tintVars, catVars>>

\* on_sprite_toggle (lines 1176-1190) of the checkbox of shown_parts[i],
\* whose BooleanVar Tk has flipped
on_sprite_toggle(i) ==
    LET part == shown_parts[i]
        var == ~check_vars[i]
    IN  /\ check_vars' = [check_vars EXCEPT ![i] = var]
        /\ gui_selected_sprites' =
              IF var
              THEN IF ~InList(gui_selected_sprites, part.name)
                   THEN Append(gui_selected_sprites, part.name)
                   ELSE gui_selected_sprites
              ELSE IF InList(gui_selected_sprites, part.name)
                   THEN RemoveFirst(gui_selected_sprites, part.name)
                   ELSE gui_selected_sprites
        /\ ScheduleIf(auto_update)
        /\ UNCHANGED <<shown_parts, auto_update, extract_worker, threads, saved_file>>
        /\ UNCHANGED <<extractVars, compVars, tintVars, catVars>>

\* select_all (lines 1225-1232)
select_all ==
    /\ shown_parts # <<>>
    /\ IF sprite_data # <<>>
       THEN /\ gui_selected_sprites' = [k \in 1..Len(sprite_data) |-> sprite_data[k].name]
            /\ setup_sprite_selection(gui_selected_sprites')
            /\ ScheduleIf(auto_update)
       ELSE UNCHANGED <<gui_selected_sprites, shown_parts, check_vars,
                        preview_update_timer, after_queue, next_after>>
    /\ UNCHANGED <<auto_update, extract_worker, threads, saved_file>>
    /\ UNCHANGED <<extractVars, compVars, tintVars, catVars>>

\* deselect_all (lines 1234-1240)
deselect_all ==
    /\ shown_parts # <<>>
    /\ gui_selected_sprites' = <<>>
    /\ setup_sprite_selection(<<>>)
    /\ ScheduleIf(auto_update)
    /\ UNCHANGED <<auto_update, extract_worker, threads, saved_file>>
    /\ UNCHANGED <<extractVars, compVars, tintVars, catVars>>

\* on_depth_change (lines 1202-1213) of the entry of shown_parts[i], with a number in it
on_depth_change(i, new_depth) ==
    LET part == shown_parts[i]
    IN  /\ custom_depths' = DictSet(custom_depths, part.name, new_depth)
        /\ ScheduleIf(auto_update /\ InList(gui_selected_sprites, part.name))
        /\ UNCHANGED <<sprite_data, selected_sprites, custom_colors, base_canvas_size,
                       size_ret, image_ret, painted, calls>>
        /\ UNCHANGED <<gui_selected_sprites, shown_parts, check_vars, auto_update,
                       extract_worker, threads, saved_file>>
        /\ UNCHANGED <<extractVars, tintVars, catVars>>

\* reset_depths (lines 1242-1248)
reset_depths ==
    /\ shown_parts # <<>>
    /\ custom_depths' = EmptyDict
    /\ setup_sprite_selection(gui_selected_sprites)
    /\ ScheduleIf(auto_update /\ gui_selected_sprites # <<>>)
    /\ UNCHANGED <<sprite_data, selected_sprites, custom_colors, base_canvas_size,
                   size_ret, image_ret, painted, calls>>
    /\ UNCHANGED <<gui_selected_sprites, auto_update, extract_worker, threads, saved_file>>
    /\ UNCHANGED <<extractVars, tintVars, catVars>>

\* on_color_change (lines 1127-1141) of a slider of shown_parts[i]
on_color_change(i, channel, value) ==
    LET part == shown_parts[i]
        seeded == IF part.name \notin DOMAIN custom_colors
                  THEN DictSet(custom_colors, part.name, part.initial_color)
                  ELSE custom_colors
    IN  /\ custom_colors' = [seeded EXCEPT ![part.name][channel] = value]
        /\ ScheduleIf(auto_update /\ InList(gui_selected_sprites, part.name))
        /\ UNCHANGED <<sprite_data, selected_sprites, custom_depths, base_canvas_size,
                       size_ret, image_ret, painted, calls>>
        /\ UNCHANGED <<gui_selected_sprites, shown_parts, check_vars, auto_update,
                       extract_worker, threads, saved_file>>
        /\ UNCHANGED <<extractVars, tintVars, catVars>>

\* reset_part_color (lines 1143-1157) of shown_parts[i]
reset_part_color(i) ==
    LET part == shown_parts[i]
    IN  /\ custom_colors' = [n \in DOMAIN custom_colors \ {part.name} |-> custom_colors[n]]
        /\ ScheduleIf(auto_update /\ InList(gui_selected_sprites, part.name))
        /\ UNCHANGED <<sprite_data, selected_sprites, custom_depths, base_canvas_size,
                       size_ret, image_ret, painted, calls>>
        /\ UNCHANGED <<gui_selected_sprites, shown_parts, check_vars, auto_update,
                       extract_worker, threads, saved_file>>
        /\ UNCHANGED <<extractVars, tintVars, catVars>>

\* reset_colors (lines 1159-1174); the sliders go back to the initial colours
reset_colors ==
    /\ shown_parts # <<>>
    /\ custom_colors' = EmptyDict
    /\ ScheduleIf(auto_update /\ gui_selected_sprites # <<>>)
    /\ UNCHANGED <<sprite_data, selected_sprites, custom_depths, base_canvas_size,
                   size_ret, image_ret, painted, calls>>
    /\ UNCHANGED <<gui_selected_sprites, shown_parts, check_vars, auto_update,
                   extract_worker, threads, saved_file>>
    /\ UNCHANGED <<extractVars, tintVars, catVars>>

\* on_auto_update_changed (lines 1279-1281), the checkbox flipped
on_auto_update_changed ==
    /\ auto_update' = ~auto_update
    /\ UNCHANGED <<gui_selected_sprites, shown_parts, check_vars, preview_update_timer,
                   after_queue, next_after, extract_worker, threads, saved_file>>
    /\ UNCHANGED <<extractVars, compVars, tintVars, catVars>>

\* generate_composite (lines 1290-1315): what it leaves in composite_image; it
\* returns at once without results or with nothing selected
generate_composite ==
    IF sprite_data = <<>> \/ gui_selected_sprites = <<>>
    THEN UNCHANGED <<image_ret, painted>>
    ELSE /\ image_ret' = create_composite_image(sprite_data, AsSelection(gui_selected_sprites),
                                                custom_depths, custom_colors)
         /\ painted' = sorted_parts(sprite_data, AsSelection(gui_selected_sprites),
                                    custom_depths)

\* the preview timer with this id fires: Tk drops it and calls generate_composite
PreviewTimer(id) ==
    /\ id \in after_queue
    /\ after_queue' = after_queue \ {id}
    /\ generate_composite
    /\ UNCHANGED <<sprite_data, selected_sprites, custom_depths, custom_colors,
                   base_canvas_size, size_ret, calls>>
    /\ UNCHANGED <<gui_selected_sprites, shown_parts, check_vars, auto_update,
                   preview_update_timer, next_after, extract_worker, threads, saved_file>>
    /\ UNCHANGED <<extractVars, tintVars, catVars>>

\* the preview button (line 709) calls generate_composite
PreviewButton ==
    /\ generate_composite
    /\ UNCHANGED <<sprite_data, selected_sprites, custom_depths, custom_colors,
                   base_canvas_size, size_ret, calls>>
    /\ UNCHANGED <<extractVars, tintVars, catVars, guiVars>>

\* save_composite (lines 1344-1361), a file name chosen in the dialog
save_composite ==
    /\ image_ret # NoCall
    /\ saved_file' = Some(image_ret)
    /\ UNCHANGED <<gui_selected_sprites, shown_parts, check_vars, auto_update,
                   preview_update_timer, after_queue, next_after, extract_worker, threads>>
    /\ UNCHANGED <<extractVars, compVars, tintVars, catVars>>

NextApp ==
    \/ BuildMappings
    \/ Link
    \/ BuildHierarchy
    \/ ExtractSprites
    \/ GenerateTransformData
    \/ SaveResults
    \/ ReturnResults
    \/ extract_thread
    \/ on_extraction_complete
    \/ \E i \in 1..Len(shown_parts) : on_sprite_toggle(i)
    \/ \E i \in 1..Len(shown_parts), channel \in {"r", "a"}, value \in {ColorUnit \div 2, ColorUnit} :
          on_color_change(i, channel, value)
    \/ \E i \in 1..Len(shown_parts) : reset_part_color(i)
    \/ \E id \in after_queue : PreviewTimer(id)
    \/ PreviewButton

SpecApp == InitApp /\ [][NextApp]_vars

(***************************************************************************)
(* The application on extraction results taken as given: the part list of  *)
(* a character with two parts of different names, of one with two parts of *)
(* the same name, and of one with a single part.  Every handler of the     *)
(* selection tab, the preview timer and the extraction thread are there,   *)
(* the thread running one statement at a time between the events.          *)
(***************************************************************************)
\* an entry of transform_data with the fields the handlers and the compositor read
GuiPart(name, path, x, order) ==
    [name |-> name, sprite_path |-> path, position |-> [x |-> x, y |-> 0],
     sorting_order |-> order, initial_color |-> DefaultColor]

ResultsPair == <<GuiPart(NameA, PathOpaque, 0, 1), GuiPart(NameB, PathSoft, 2, 2)>>
ExtractionPool ==
    {ResultsPair,
     <<GuiPart(NameA, PathOpaque, 0, 1), GuiPart(NameA, PathSoft, 2, 2)>>,
     <<GuiPart(<<"c">>, PathMixed, 0, 1)>>}

\* the extractions started in one run of the application
MaxRuns == 2

\* UnityExtractorGUI.__init__ (lines 586-607), the sprites directory filled
InitGui ==
    /\ ExtractIdle
    /\ files = Disk
    /\ sprite_data = <<>>
    /\ selected_sprites = None
    /\ custom_depths = EmptyDict
    /\ custom_colors = EmptyDict
    /\ base_canvas_size = <<2000, 4000>>
    /\ size_ret = None
    /\ image_ret = NoCall
    /\ painted = <<>>
    /\ calls = 0
    /\ TintIdle
    /\ CatIdle
    /\ GuiIdle

\* start_extraction (lines 778-816): the thread is started and
\* extract_character_parts (line 802) returns the results of the chosen file
start_extraction(results) ==
    /\ extract_worker.at = "none"
    /\ extract_worker.runs < MaxRuns
    /\ extract_worker' = [at |-> "results", results |-> results,
                          runs |-> extract_worker.runs + 1]
    /\ UNCHANGED <<gui_selected_sprites, shown_parts, check_vars, auto_update,
                   preview_update_timer, after_queue, next_after, threads, saved_file>>
    /\ UNCHANGED <<extractVars, compVars, tintVars, catVars>>

\* the selection tab used for selecting and saving
NextSelect ==
    \/ \E results \in ExtractionPool : start_extraction(results)
    \/ extract_thread
    \/ on_extraction_complete
    \/ \E i \in 1..Len(shown_parts) : on_sprite_toggle(i)
    \/ select_all
    \/ deselect_all
    \/ on_auto_update_changed
    \/ \E id \in after_queue : PreviewTimer(id)
    \/ save_composite

SpecSelect == InitGui /\ [][NextSelect]_vars

\* the selection tab used for editing: handlers of the selection, the depths
\* and the colours that schedule a preview
NextPreview ==
    \/ start_extraction(ResultsPair)
    \/ extract_thread
    \/ on_extraction_complete
    \/ \E i \in 1..Len(shown_parts) : on_sprite_toggle(i)
    \/ \E i \in 1..Len(shown_parts) : on_depth_change(i, 3)
    \/ reset_depths
    \/ \E i \in 1..Len(shown_parts) : on_color_change(i, "a", ColorUnit \div 2)
    \/ reset_colors
    \/ \E id \in after_queue : PreviewTimer(id)

SpecPreview == InitGui /\ [][NextPreview]_vars

\* an extraction started while the parts of the previous one are on the tab
NextReload ==
    \/ \E results \in ExtractionPool : start_extraction(results)
    \/ extract_thread
    \/ on_extraction_complete
    \/ \E i \in 1..Len(shown_parts) : on_sprite_toggle(i)
    \/ \E i \in 1..Len(shown_parts) : on_depth_change(i, 3)
    \/ \E i \in 1..Len(shown_parts) : on_color_change(i, "a", ColorUnit \div 2)
    \/ PreviewButton

SpecReload == InitGui /\ [][NextReload]_vars

(***************************************************************************)
(* The threaded variant (Source/Tkinter/tkinter_app.py, the same code in   *)
(* tkinter_app_onlychinese.py): generate_composite starts a thread that    *)
(* calls create_composite_image on self.selected_sprites and               *)
(* self.custom_depths, the very list and dict the handlers write to, and   *)
(* hands the composite to display_composite_image through after(0, ...).   *)
(* on_sprite_toggle, on_depth_change and schedule_preview_update are the   *)
(* code of the RGBA variant (tkinter_app.py lines 1280-1306, 944-950); the *)
(* compositor is the one above without the colour overrides.               *)
(***************************************************************************)
\* the generation threads started in one run of the application
MaxGenerations == 2

\* the application after the extraction of a character with two parts
InitThreaded ==
    /\ ExtractIdle
    /\ files = Disk
    /\ sprite_data = ResultsPair
    /\ selected_sprites = None
    /\ custom_depths = EmptyDict
    /\ custom_colors = EmptyDict
    /\ base_canvas_size = <<2000, 4000>>
    /\ size_ret = None
    /\ image_ret = NoCall
    /\ painted = <<>>
    /\ calls = 0
    /\ TintIdle
    /\ CatIdle
    /\ gui_selected_sprites = <<>>
    /\ shown_parts = ResultsPair
    /\ check_vars = <<FALSE, FALSE>>
    /\ auto_update = TRUE
    /\ preview_update_timer = None
    /\ after_queue = {}
    /\ next_after = 1
    /\ extract_worker = [at |-> "none", results |-> ResultsPair, runs |-> 1]
    /\ threads = [started |-> 0, running |-> <<>>, shown |-> 0]
    /\ saved_file = None

\* generate_composite (tkinter_app.py lines 1337-1363) called by the preview
\* timer with this id: threading.Thread(target=generate_thread).start().
\* request_selected and request_depths are what the selection and the depth
\* overrides were at the call; the thread does not read them.
generate_composite_thread(id) ==
    /\ id \in after_queue
    /\ after_queue' = after_queue \ {id}
    /\ IF gui_selected_sprites = <<>> \/ sprite_data = <<>>
       THEN UNCHANGED threads
       ELSE /\ threads.started < MaxGenerations
            /\ threads' = [threads EXCEPT
                  !.started = threads.started + 1,
                  !.running = Append(threads.running,
                      [id |-> threads.started + 1, at |-> "size",
                       request_selected |-> gui_selected_sprites,
                       request_depths |-> custom_depths,
                       canvas_size |-> <<0, 0>>, size_selected |-> <<>>,
                       order |-> <<>>, sort_selected |-> <<>>,
                       composite |-> NoCall, posted |-> 0])]
    /\ UNCHANGED <<gui_selected_sprites, shown_parts, check_vars, auto_update,
                   preview_update_timer, next_after, extract_worker, saved_file>>
    /\ UNCHANGED <<extractVars, compVars, tintVars, catVars>>

\* generate_thread (lines 1349-1361), thread k of those running, one part of
\* create_composite_image (lines 582-634) at a time: the canvas size from the
\* selection as it is now (line 590), the sorted list of the parts selected
\* now by the depths as they are now (lines 593-602), the painting (604-634),
\* and root.after(0, display_composite_image) (line 1358)
generate_thread(k) ==
    LET t == threads.running[k]
        now == AsSelection(gui_selected_sprites)
        posts == {threads.running[j].posted : j \in 1..Len(threads.running)}
    IN  /\ t.at \in {"size", "sort", "paint", "post"}
        /\ threads' = [threads EXCEPT !.running[k] =
              CASE t.at = "size" ->
                     [t EXCEPT !.at = "sort",
                               !.canvas_size = calculate_canvas_size(sprite_data, now),
                               !.size_selected = gui_selected_sprites]
                [] t.at = "sort" ->
                     [t EXCEPT !.at = "paint",
                               !.order = sorted_parts(sprite_data, now, custom_depths),
                               !.sort_selected = gui_selected_sprites]
                [] t.at = "paint" ->
                     [t EXCEPT !.at = "post",
                               !.composite = PaintAll(sprite_data, t.order, EmptyDict,
                                                      NewCanvas(t.canvas_size))]
                [] t.at = "post" ->
                     [t EXCEPT !.at = "posted", !.posted = 1 + CHOOSE m \in posts : \A n \in posts : n <= m]]
        /\ UNCHANGED <<gui_selected_sprites, shown_parts, check_vars, auto_update,
                       preview_update_timer, after_queue, next_after, extract_worker,
                       saved_file>>
        /\ UNCHANGED <<extractVars, compVars, tintVars, catVars>>

\* display_composite_image (lines 1365-1372) of the composite posted first
display_composite_image(k) ==
    LET t == threads.running[k]
    IN  /\ t.at = "posted"
        /\ \A j \in 1..Len(threads.running) :
              threads.running[j].at = "posted" => t.posted <= threads.running[j].posted
        /\ image_ret' = t.composite
        /\ painted' = t.order
        /\ threads' = [threads EXCEPT
              !.shown = t.id,
              !.running = SelectSeq(threads.running, LAMBDA r : r.id # t.id)]
        /\ UNCHANGED <<sprite_data, selected_sprites, custom_depths, custom_colors,
                       base_canvas_size, size_ret, calls>>
        /\ UNCHANGED <<gui_selected_sprites, shown_parts, check_vars, auto_update,
                       preview_update_timer, after_queue, next_after, extract_worker,
                       saved_file>>
        /\ UNCHANGED <<extractVars, tintVars, catVars>>

NextThreaded ==
    \/ \E i \in 1..Len(shown_parts) : on_sprite_toggle(i)
    \/ \E i \in 1..Len(shown_parts) : on_depth_change(i, 3)
    \/ \E id \in after_queue : generate_composite_thread(id)
    \/ \E k \in 1..Len(threads.running) : generate_thread(k)
    \/ \E k \in 1..Len(threads.running) : display_composite_image(k)

SpecThreaded == InitThreaded /\ [][NextThreaded]_vars

(***************************************************************************)
(* The tint corrector called on its own: apply_color_correction (lines     *)
(* 334-358) and apply_color_adjustment (lines 564-581) on an image that    *)
(* holds every 8-bit value in each of its channels.                        *)
(***************************************************************************)
\* the image passed in: pixel number v = x + 16 * y holds v in the red channel
TintImage ==
    [size |-> <<16, 16>>,
     px |-> [p \in (0..15) \X (0..15) |->
                LET v == p[1] + 16 * p[2]
                IN  <<v, 255 - v, (7 * v) % 256, (13 * v + 5) % 256>>]]

\* multipliers 0, 0.42, 0.5, 1, 1.5 and 2
TintFactorValues ==
    {0, (42 * ColorUnit) \div 100, ColorUnit \div 2, ColorUnit,
     (3 * ColorUnit) \div 2, 2 * ColorUnit}

InitTint ==
    /\ ExtractIdle
    /\ files = <<>>
    /\ CompIdle
    /\ tint_heap = <<TintImage>>
    /\ tint_arg = 1
    /\ tint_factors \in [r : TintFactorValues, g : TintFactorValues,
                        b : {ColorUnit, 2 * ColorUnit}, a : {ColorUnit \div 2, ColorUnit}]
    /\ tint_fn = "none"
    /\ tint_ret = None
    /\ CatIdle
    /\ GuiIdle

\* a corrector that writes into the image it was given and returns it
TintCall_InPlace(heap, arg, result) ==
    [heap |-> [heap EXCEPT ![arg] = result], ret |-> arg]

\* np.array(image, dtype=np.float32) copies the pixels, the products are
\* written into the copy, and Image.fromarray makes a new image of it
TintCall(heap, arg, result) ==
    [heap |-> Append(heap, result), ret |-> Len(heap) + 1]

CallApplyColorCorrection ==
    /\ tint_ret = None
    /\ LET done == TintCall(tint_heap, tint_arg,
                            apply_color_correction(tint_heap[tint_arg], tint_factors))
       IN  /\ tint_heap' = done.heap
           /\ tint_ret' = Some(done.ret)
    /\ tint_fn' = "apply_color_correction"
    /\ UNCHANGED <<tint_arg, tint_factors>>
    /\ UNCHANGED <<extractVars, compVars, catVars, guiVars>>

CallApplyColorAdjustment ==
    /\ tint_ret = None
    /\ LET done == TintCall(tint_heap, tint_arg,
                            apply_color_adjustment(tint_heap[tint_arg], tint_factors))
       IN  /\ tint_heap' = done.heap
           /\ tint_ret' = Some(done.ret)
    /\ tint_fn' = "apply_color_adjustment"
    /\ UNCHANGED <<tint_arg, tint_factors>>
    /\ UNCHANGED <<extractVars, compVars, catVars, guiVars>>

NextTint ==
    \/ CallApplyColorCorrection
    \/ CallApplyColorAdjustment

SpecTint == InitTint /\ [][NextTint]_vars

(***************************************************************************)
(* categorize_part called on its own, on names put together from two       *)
(* pieces and on three names of three pieces.                              *)
(***************************************************************************)
CatPieces ==
    {<<>>,
     <<"B", "o", "d", "y">>,
     <<"t", "o", "r", "s", "o">>,
     <<"H", "E", "A", "D">>,
     <<"f", "a", "c", "e">>,
     <<"A", "r", "m", "L">>,
     <<"L", "e", "f", "t", "A", "r", "m">>,
     <<"a", "r", "m", "R">>,
     <<"R", "i", "g", "h", "t", "A", "r", "m">>,
     <<"a", "r", "m">>,
     <<"E", "y", "e">>,
     <<"B", "r", "o", "w">>,
     <<"m", "o", "u", "t", "h">>,
     <<"H", "a", "i", "r">>,
     <<"b", "l", "e", "n", "d">>,
     <<"E", "f", "f", "e", "c", "t">>,
     <<"S", "h", "a", "d", "o", "w">>,
     <<"X", "Y", "Z">>,
     <<"_">>}

NameLeftArmShadow == <<"L", "e", "f", "t", "A", "r", "m", "_", "S", "h", "a", "d", "o", "w">>
NameEyeBrow == <<"E", "y", "e", "B", "r", "o", "w">>
NameXYZ == <<"X", "Y", "Z">>

CatNames ==
    {a \o b : a, b \in CatPieces} \cup {NameLeftArmShadow, <<"H", "a", "i", "r", "_", "B", "l", "e", "n", "d", "_", "M", "o", "u", "t", "h">>, <<"F", "a", "c", "e", "-", "B", "o", "d", "y">>}

InitCat ==
    /\ ExtractIdle
    /\ files = <<>>
    /\ CompIdle
    /\ TintIdle
    /\ GuiIdle
    /\ part_name \in CatNames
    /\ category = None

CallCategorizePart ==
    /\ category = None
    /\ category' = Some(categorize_part(part_name))
    /\ UNCHANGED part_name
    /\ UNCHANGED <<extractVars, compVars, tintVars, guiVars>>

NextCat == CallCategorizePart

SpecCat == InitCat /\ [][NextCat]_vars

(***************************************************************************)
(* Properties of extract_character_parts                                   *)
(***************************************************************************)

\* C2: hierarchy assembly terminates for every set of transform records:
\* build_hierarchy returns without raising, and no tree of the result holds
\* the same transform twice on one path from its root.
C2_HierarchyTerminates ==
    /\ pc # "RecursionError"
    /\ \A i \in 1..Len(hierarchy) :
          LET RECURSIVE NoRepeat(_, _)
              NoRepeat(node, seen) ==
                  /\ node.transform_id \notin seen
                  /\ \A k \in 1..Len(node.children) :
                        NoRepeat(node.children[k], seen \cup {node.transform_id})
          IN  NoRepeat(hierarchy[i], {})

\* C4 as claimed: the returned part list has exactly one entry for every
\* GameObject that a Transform and a SpriteRenderer refer to, and none for a
\* GameObject that lacks either.
C4_OnePartPerJoinedObject ==
    pc = "done" =>
        \A g \in 1..Len(game_objects) :
            LET id == game_objects[g].id
                both == /\ \E t \in 1..Len(transforms) : transforms[t].game_object = id
                        /\ \E r \in 1..Len(sprite_renderers) : sprite_renderers[r].game_object = id
                n == Cardinality({e \in 1..Len(transform_data) :
                                     transform_data[e].game_object_id = id})
            IN  n = IF both THEN 1 ELSE 0

\* C4 amended: the returned part list has exactly one entry for every
\* GameObject that was read, that a Transform that was read refers to, and
\* whose first SpriteRenderer (in record order, among those read) has a
\* sprite id that is a key of sprite_mapping; it has no entry for any other
\* GameObject, and no entry that belongs to no GameObject.
C4_OnePartPerResolvedObject ==
    pc = "done" =>
        /\ \A g \in 1..Len(game_objects) :
            LET id == game_objects[g].id
                hasT == \E t \in 1..Len(transforms) : transforms[t].game_object = id
                rs == {r \in 1..Len(sprite_renderers) : sprite_renderers[r].game_object = id}
                first == CHOOSE r \in rs : \A q \in rs : r <= q
                resolved == /\ hasT
                            /\ rs # {}
                            /\ \E m \in 1..Len(sprite_mapping) :
                                  sprite_mapping[m].id = sprite_renderers[first].sprite
                n == Cardinality({e \in 1..Len(transform_data) :
                                     transform_data[e].game_object_id = id})
            IN  n = IF resolved THEN 1 ELSE 0
        /\ \A e \in 1..Len(transform_data) :
              \E g \in 1..Len(game_objects) :
                  game_objects[g].id = transform_data[e].game_object_id

\* a finished run with a GameObject that has an entry and one that has a
\* Transform and a SpriteRenderer but no entry
C4_Witness ==
    /\ pc = "done"
    /\ transform_data # <<>>
    /\ \E g \in 1..Len(game_objects) :
          /\ \E t \in 1..Len(transforms) : transforms[t].game_object = game_objects[g].id
          /\ \E r \in 1..Len(sprite_renderers) :
                sprite_renderers[r].game_object = game_objects[g].id
          /\ \A e \in 1..Len(transform_data) :
                transform_data[e].game_object_id # game_objects[g].id

\* C5: step 5 never raises, and every entry of the part list it builds has
\* a non-zero sprite id that is a key of sprite_mapping, with the path and
\* size recorded for that key; a part whose sprite id is 0 or not a key of
\* sprite_mapping has no entry.
C5_EntriesResolved ==
    [][pc = "step5" =>
        /\ pc' = "step6"
        /\ \A e \in 1..Len(transform_data') :
              /\ transform_data'[e].sprite_id # 0
              /\ \E m \in 1..Len(sprite_mapping) :
                    /\ sprite_mapping[m].id = transform_data'[e].sprite_id
                    /\ sprite_mapping[m].file_path = transform_data'[e].sprite_path
                    /\ sprite_mapping[m].size = transform_data'[e].sprite_size
                    /\ sprite_mapping[m].name = transform_data'[e].sprite_name
        /\ \A p \in 1..Len(character_parts) :
              (\A m \in 1..Len(sprite_mapping) :
                    sprite_mapping[m].id # character_parts[p].sprite_id)
              => \A e \in 1..Len(transform_data') :
                    transform_data'[e].game_object_id # character_parts[p].game_object_id
      ]_vars

\* a finished run in which one part resolved and another part's sprite id
\* is 0 or unknown
C5_Witness ==
    /\ pc = "done"
    /\ transform_data # <<>>
    /\ \E p \in 1..Len(character_parts) :
          \A m \in 1..Len(sprite_mapping) :
              sprite_mapping[m].id # character_parts[p].sprite_id

\* C15: step 1 never raises, and the three mappings it builds hold exactly
\* the well-formed records of the three recognised types: a record is in
\* its mapping if and only if its read succeeds and it has its owner
\* reference (Transform, SpriteRenderer), its sprite reference
\* (SpriteRenderer) and its parent reference (Transform).
C15_MappingsHoldWellFormed ==
    [][pc = "step1" =>
        /\ pc' = "step2"
        /\ \A k \in 1..Len(env) :
              LET o == env[k]
                  stored(d) == \E i \in 1..Len(d) : d[i].id = o.path_id
              IN  /\ o.type = "GameObject" => (stored(game_objects') <=> o.ok)
                  /\ o.type = "Transform" =>
                        (stored(transforms') <=>
                            (o.ok /\ o.m_GameObject # None /\ o.m_Father # None))
                  /\ o.type = "SpriteRenderer" =>
                        (stored(sprite_renderers') <=>
                            (o.ok /\ o.m_GameObject # None /\ o.m_Sprite # None))
      ]_vars

\* C20: a transform whose parent id is not 0 and is the id of no transform
\* read is the root of exactly one tree of the hierarchy.
C20_UnresolvedParentIsRoot ==
    pc \in {"step4", "step5", "step6", "done"} =>
        \A t \in 1..Len(transforms) :
            (/\ transforms[t].parent # 0
             /\ \A u \in 1..Len(transforms) : transforms[u].id # transforms[t].parent) =>
                Cardinality({i \in 1..Len(hierarchy) :
                                hierarchy[i].transform_id = transforms[t].id}) = 1

\* C21: in every node of the hierarchy the children are the nodes of the
\* child ids of its transform that are ids of transforms read, in the order
\* of the child list and one level below the node; a child id that is 0 or
\* the id of no transform gives no node. Such an id raises nothing: step 3
\* raises only when the child lists lead from a transform back to itself.
C21_UnresolvedChildSkipped ==
    LET known(id) == \E u \in 1..Len(transforms) : transforms[u].id = id
        childIds(id) == Range(DictGet(transforms, id)[1].children)
        RECURSIVE ReachedFrom(_, _)
        ReachedFrom(S, n) ==
            IF n = 0 THEN S
            ELSE ReachedFrom(S \cup {c \in UNION {childIds(x) : x \in S} : known(c)}, n - 1)
        cyclic == \E u \in 1..Len(transforms) :
                     transforms[u].id \in
                        ReachedFrom({c \in childIds(transforms[u].id) : known(c)},
                                    Len(transforms))
        RECURSIVE NodeOK(_)
        NodeOK(node) ==
            LET resolving == SelectSeq(DictGet(transforms, node.transform_id)[1].children,
                                       known)
            IN  /\ Len(node.children) = Len(resolving)
                /\ \A k \in 1..Len(resolving) :
                      /\ node.children[k].transform_id = resolving[k]
                      /\ node.children[k].level = node.level + 1
                      /\ NodeOK(node.children[k])
    IN  /\ pc = "RecursionError" => cyclic
        /\ pc \in {"step4", "step5", "step6", "done"} =>
              \A i \in 1..Len(hierarchy) : NodeOK(hierarchy[i])

\* a finished run whose hierarchy has a node with the child list <<99, 12>>
\* and the node of 12 as its only child
C21_Witness ==
    /\ pc = "done"
    /\ \E i \in 1..Len(hierarchy) :
          /\ DictGet(transforms, hierarchy[i].transform_id)[1].children = <<99, 12>>
          /\ Len(hierarchy[i].children) = 1
          /\ hierarchy[i].children[1].transform_id = 12
          /\ hierarchy[i].children[1].level = 1


\* C30: after extract_character_parts, two different sprite ids of
\* sprite_mapping have different file paths, and the file at the sprite_path
\* of every entry of transform_data holds the image of the sprite of the
\* entry's sprite id, as it is in the bundle or tint-corrected with the
\* colour of a part of that sprite; sprite names may be equal, or equal once
\* the forbidden characters are replaced.
C30_DistinctSpritesDistinctFiles ==
    pc = "done" =>
        /\ \A m, n \in 1..Len(sprite_mapping) :
              sprite_mapping[m].id # sprite_mapping[n].id
                  => sprite_mapping[m].file_path # sprite_mapping[n].file_path
        /\ \A e \in 1..Len(transform_data) :
              LET raw == (CHOOSE o \in Range(env) :
                             o.type = "Sprite" /\ o.path_id = transform_data[e].sprite_id).image
                  stored == OpenImage(transform_data[e].sprite_path)
              IN  /\ stored # None
                  /\ \/ stored[1] = raw
                     \/ \E p \in 1..Len(character_parts) :
                           /\ character_parts[p].sprite_id = transform_data[e].sprite_id
                           /\ stored[1] = apply_color_correction(raw,
                                              character_parts[p].initial_color)

(***************************************************************************)
(* Properties of the compositor                                            *)
(***************************************************************************)

\* C1: create_composite_image goes through the selected parts in ascending
\* order of effective depth, the effective depth of a part being
\* custom_depths[name] whenever the name has an entry (0 included) and its
\* sorting_order otherwise.
C1_AscendingEffectiveDepth ==
    image_ret.kind = "image" =>
        LET eff(i) == IF sprite_data[i].name \in DOMAIN custom_depths
                      THEN custom_depths[sprite_data[i].name]
                      ELSE sprite_data[i].sorting_order
        IN  /\ Range(painted) = {i \in 1..Len(sprite_data) :
                    selected_sprites = None \/ sprite_data[i].name \in selected_sprites[1]}
            /\ \A a, b \in 1..Len(painted) : a < b => eff(painted[a]) <= eff(painted[b])

\* C3: for a non-empty selection the canvas encloses every selected part
\* whose sprite loads: the rectangle the part is placed at lies within
\* 0 .. width and 0 .. height of the canvas.
C3_CanvasEnclosesParts ==
    (image_ret.kind = "image" /\ painted # <<>>) =>
        \A k \in 1..Len(painted) :
            LET part == sprite_data[painted[k]]
                opened == OpenImage(part.sprite_path)
                at == Placement(part, opened[1], image_ret.size)
            IN  opened # None =>
                    /\ 0 <= at[1] /\ at[1] + opened[1].size[1] <= image_ret.size[1]
                    /\ 0 <= at[2] /\ at[2] + opened[1].size[2] <= image_ret.size[2]

\* C6: for every part list, the empty one included, create_composite_image
\* with an empty selection returns an image, fully transparent and of the
\* minimum canvas size.
C6_EmptySelectionGivesCanvas ==
    (calls > 0 /\ selected_sprites = Some({})) =>
        /\ image_ret.kind = "image"
        /\ image_ret.size = base_canvas_size
        /\ DOMAIN image_ret.px = {}

\* C7: calculate_canvas_size returns base_canvas_size for an empty
\* selection (and for None), and for any selection what it returns for the
\* part list with the unselected parts taken out: two part lists with the
\* same selected parts give the same size.
C7_SizeIgnoresUnselected ==
    size_ret # None =>
        /\ (selected_sprites \in {None, Some({})} => size_ret[1] = base_canvas_size)
        /\ selected_sprites # None =>
              size_ret[1] = calculate_canvas_size(
                                SelectSeq(sprite_data,
                                          LAMBDA part : part.name \in selected_sprites[1]),
                                selected_sprites)

\* a size was computed for a selected part while an unselected part with a
\* loadable sprite lies 2100 pixels away
C7_Witness ==
    /\ size_ret # None
    /\ selected_sprites = Some({NameA})
    /\ \E i, j \in 1..Len(sprite_data) :
          /\ sprite_data[i].name = NameA
          /\ OpenImage(sprite_data[i].sprite_path) # None
          /\ sprite_data[j].name = NameB
          /\ sprite_data[j].position.x = 4200
          /\ OpenImage(sprite_data[j].sprite_path) # None

\* C8: for every configured minimum, calculate_canvas_size returns a width
\* and a height that are positive and at least the configured minimum.
C8_SizeAtLeastConfiguredMinimum ==
    size_ret # None =>
        /\ size_ret[1][1] > 0 /\ size_ret[1][1] >= base_canvas_size[1]
        /\ size_ret[1][2] > 0 /\ size_ret[1][2] >= base_canvas_size[2]

\* C9: two selected parts with the same effective depth (the override when
\* the name has one, else sorting_order) are gone through in the order in
\* which they stand in the part list.
C9_StableOnEffectiveDepth ==
    image_ret.kind = "image" =>
        LET eff(i) == IF sprite_data[i].name \in DOMAIN custom_depths
                      THEN custom_depths[sprite_data[i].name]
                      ELSE sprite_data[i].sorting_order
        IN  \A a, b \in 1..Len(painted) :
                (a < b /\ eff(painted[a]) = eff(painted[b])) => painted[a] < painted[b]

C22_PlacementRounds ==
    image_ret.kind = "image" =>
        \A k \in 1..Len(painted) :
            LET part == sprite_data[painted[k]]
                opened == OpenImage(part.sprite_path)
                sprite_img == Tinted(part, opened[1], custom_colors)
                at == Placement(part, sprite_img, image_ret.size)
                screen_x == at[1] + sprite_img.size[1] \div 2
                screen_y == at[2] + sprite_img.size[2] \div 2
            IN  opened # None =>
                  /\ Abs(2 * PosScale * screen_x
                           - (2 * part.position.x * ratio + image_ret.size[1] * PosScale))
                        <= PosScale
                  /\ Abs(2 * PosScale * screen_y
                           - (2 * part.position.y * (-ratio) + image_ret.size[2] * PosScale))
                        <= PosScale

(***************************************************************************)
(* Properties of the pixels                                                *)
(***************************************************************************)

\* C11: when a part whose pixel has a partial alpha (0 < alpha < 255) is
\* painted over a pixel that a lower part has painted, the colour of the
\* pixel in the result lies between the colours of the two sprite pixels on
\* each of the channels R, G and B, strictly between where the two differ,
\* and so is never darker than both. Stated of the Streamlit compositor.
C11_BlendBetweenSources ==
    (/\ image_ret.kind = "image"
     /\ Len(painted) = 2
     /\ OpenImage(sprite_data[painted[1]].sprite_path) # None
     /\ OpenImage(sprite_data[painted[2]].sprite_path) # None) =>
        LET lo == sprite_data[painted[1]]
            up == sprite_data[painted[2]]
            loImg == OpenImage(lo.sprite_path)[1]
            upImg == OpenImage(up.sprite_path)[1]
            loAt == Placement(lo, loImg, image_ret.size)
            upAt == Placement(up, upImg, image_ret.size)
        IN  \A q \in DOMAIN upImg.px :
                LET p == <<upAt[1] + q[1], upAt[2] + q[2]>>
                    ql == <<p[1] - loAt[1], p[2] - loAt[2]>>
                IN  (/\ upImg.px[q][4] > 0 /\ upImg.px[q][4] < 255
                     /\ ql \in DOMAIN loImg.px
                     /\ loImg.px[ql][4] > 0
                     /\ p[1] >= 0 /\ p[1] < image_ret.size[1]
                     /\ p[2] >= 0 /\ p[2] < image_ret.size[2]) =>
                        \A c \in 1..3 :
                            LET a == loImg.px[ql][c]
                                b == upImg.px[q][c]
                                r == WebPixelAt(image_ret, p)[c]
                            IN  /\ Min(a, b) <= r /\ r <= Max(a, b)
                                /\ a # b => (Min(a, b) < r /\ r < Max(a, b))

\* C12: the canvas is fully transparent before the first part is painted:
\* every pixel of the returned image that lies under no painted part has
\* alpha 0 (looked at in the two corners of the raster and at every pixel
\* that differs from the background). Stated of the Streamlit compositor.
C12_UncoveredPixelsTransparent ==
    image_ret.kind = "image" =>
        LET covers(k, p) ==
                LET part == sprite_data[painted[k]]
                    opened == OpenImage(part.sprite_path)
                    at == Placement(part, opened[1], image_ret.size)
                IN  /\ opened # None
                    /\ <<p[1] - at[1], p[2] - at[2]>> \in DOMAIN opened[1].px
            looked == DOMAIN image_ret.px
                        \cup {<<0, 0>>, <<image_ret.size[1] - 1, image_ret.size[2] - 1>>}
        IN  \A p \in looked :
                (\A k \in 1..Len(painted) : ~covers(k, p)) => WebPixelAt(image_ret, p)[4] = 0

\* C13 as claimed: for every 8-bit channel value v and every multiplier m,
\* the tint corrector puts min(255, floor(v * m)) into that channel, from
\* the channel's own multiplier.
C13_FloorOfProduct ==
    tint_ret # None =>
        LET out == tint_heap[tint_ret[1]]
            m == <<tint_factors.r, tint_factors.g, tint_factors.b, tint_factors.a>>
        IN  \A p \in DOMAIN TintImage.px : \A c \in 1..4 :
                out.px[p][c] = Min(255, (TintImage.px[p][c] * m[c]) \div ColorUnit)

\* C13 amended: the channel holds the float32 product of v and its own
\* multiplier m, cut to an integer and to 255 at most: a value that is
\* within 1 of min(255, floor(v * m)), and equal to it whenever m is a
\* multiple of 1/256; it never wraps around. So the multipliers 1 return
\* the input pixels, and 0.5 on red halves red (rounded down).
C13_ProductWithinOne ==
    tint_ret # None =>
        LET out == tint_heap[tint_ret[1]]
            m == <<tint_factors.r, tint_factors.g, tint_factors.b, tint_factors.a>>
        IN  /\ out.size = TintImage.size
            /\ DOMAIN out.px = DOMAIN TintImage.px
            /\ \A p \in DOMAIN TintImage.px : \A c \in 1..4 :
                  LET want == Min(255, (TintImage.px[p][c] * m[c]) \div ColorUnit)
                  IN  /\ Abs(out.px[p][c] - want) <= 1
                      /\ (256 * m[c]) % ColorUnit = 0 => out.px[p][c] = want

\* a call with 0.42 on red (for v = 150, at pixel (6, 9), a product that
\* float32 rounds below 63), 2 on green (for v = 255, at pixel (0, 0), a
\* product above 255) and 1 on blue
C13_Witness ==
    /\ tint_ret # None
    /\ tint_factors.r = (42 * ColorUnit) \div 100
    /\ tint_factors.g = 2 * ColorUnit
    /\ tint_factors.b = ColorUnit
    /\ tint_heap[tint_ret[1]].px[<<6, 9>>][1] = 62
    /\ tint_heap[tint_ret[1]].px[<<6, 9>>][2] = 210
    /\ tint_heap[tint_ret[1]].px[<<0, 0>>][2] = 255

\* C14: the tint corrector changes neither the image nor the colour
\* dictionary it was given, and what it returns is another image than the
\* one passed in.
C14_InputUntouched ==
    [][tint_ret' # tint_ret =>
          /\ tint_arg' = tint_arg
          /\ tint_heap'[tint_arg] = tint_heap[tint_arg]
          /\ tint_factors' = tint_factors
          /\ tint_ret' # None
          /\ tint_ret'[1] # tint_arg
      ]_vars

\* a call that returned pixels other than those passed in
C14_Witness ==
    /\ tint_ret # None
    /\ tint_fn = "apply_color_adjustment"
    /\ tint_heap[tint_ret[1]] # tint_heap[tint_arg]

C16_FirstMatchingRule ==
    category # None =>
        LET rules == <<[words |-> {<<"b", "o", "d", "y">>, <<"t", "o", "r", "s", "o">>}, category |-> "body"],
                       [words |-> {<<"h", "e", "a", "d">>, <<"f", "a", "c", "e">>}, category |-> "head"],
                       [words |-> {<<"a", "r", "m", "l">>, <<"l", "e", "f", "t", "a", "r", "m">>}, category |-> "arm_left"],
                       [words |-> {<<"a", "r", "m", "r">>, <<"r", "i", "g", "h", "t", "a", "r", "m">>}, category |-> "arm_right"],
                       [words |-> {<<"a", "r", "m">>}, category |-> "arms"],
                       [words |-> {<<"e", "y", "e">>}, category |-> "eyes"],
                       [words |-> {<<"m", "o", "u", "t", "h">>}, category |-> "mouth"],
                       [words |-> {<<"h", "a", "i", "r">>}, category |-> "hair"],
                       [words |-> {<<"b", "l", "e", "n", "d">>, <<"e", "f", "f", "e", "c", "t">>, <<"s", "h", "a", "d", "o", "w">>}, category |-> "effects"]>>
            matching == {k \in 1..Len(rules) :
                            \E w \in rules[k].words : Contains(Lower(part_name), w)}
            first == CHOOSE k \in matching : \A j \in matching : k <= j
        IN  /\ category[1] = IF matching = {} THEN "other" ELSE rules[first].category
            /\ category[1] = categorize_part(Lower(part_name))
            /\ part_name = NameLeftArmShadow => category[1] = "arm_left"
            /\ part_name = NameEyeBrow => category[1] = "eyes"
            /\ part_name = NameXYZ => category[1] = "other"

\* the category of LeftArm_Shadow, which three rules match, was returned
C16_Witness ==
    /\ category # None
    /\ part_name = NameLeftArmShadow

(***************************************************************************)
(* Properties of the application                                           *)
(***************************************************************************)

\* C18: when generate_composite paints a part whose name has an override c
\* in custom_colors, the pixels it paints for the part are the tint
\* corrector applied once with c to the pixels of the sprite as they are in
\* the bundle; when that part is the only one painted, the returned image
\* is the canvas with those pixels on it.
C18_OverrideAppliedOnce ==
    [][(/\ pc = "gui"
        /\ UNCHANGED <<sprite_data, gui_selected_sprites, custom_colors>>
        /\ image_ret'.kind = "image"
        /\ <<image_ret, painted>>' # <<image_ret, painted>>) =>
          \A k \in 1..Len(painted') :
              LET part == sprite_data[painted'[k]]
                  raw == (CHOOSE o \in Range(env) :
                             o.type = "Sprite" /\ o.path_id = part.sprite_id).image
                  once == apply_color_adjustment(raw, custom_colors[part.name])
              IN  part.name \in DOMAIN custom_colors =>
                    /\ Tinted(part, OpenImage(part.sprite_path)[1], custom_colors) = once
                    /\ Len(painted') = 1 =>
                          image_ret' = PaintSprite(NewCanvas(image_ret'.size), once,
                                                   Placement(part, once, image_ret'.size))
      ]_vars

\* C19: when generate_composite paints a part whose renderer tint is the
\* identity and whose name has no override, the pixels it paints for the
\* part are the pixels of the sprite as they are in the bundle, also when
\* another part has the same sprite with another tint.
C19_UntintedPartPaintedRaw ==
    [][(/\ pc = "gui"
        /\ UNCHANGED <<sprite_data, gui_selected_sprites, custom_colors>>
        /\ image_ret'.kind = "image"
        /\ <<image_ret, painted>>' # <<image_ret, painted>>) =>
          \A k \in 1..Len(painted') :
              LET part == sprite_data[painted'[k]]
                  raw == (CHOOSE o \in Range(env) :
                             o.type = "Sprite" /\ o.path_id = part.sprite_id).image
              IN  (is_default_color(part.initial_color)
                   /\ part.name \notin DOMAIN custom_colors) =>
                    /\ Tinted(part, OpenImage(part.sprite_path)[1], custom_colors) = raw
                    /\ Len(painted') = 1 =>
                          image_ret' = PaintSprite(NewCanvas(image_ret'.size), raw,
                                                   Placement(part, raw, image_ret'.size))
      ]_vars

\* C24: whenever the checkbox of a shown part is toggled off, after any
\* select_all, deselect_all and toggles, the part's name is absent from
\* selected_sprites afterwards (so that no later composite paints the part);
\* the part list may hold two parts of the same name.
C24_ToggledOffIsAbsent ==
    [][\A i \in 1..Len(shown_parts) :
          (on_sprite_toggle(i) /\ check_vars[i])
              => ~InList(gui_selected_sprites', shown_parts[i].name)
      ]_vars

\* C25: when the preview timer fires with nothing selected, composite_image
\* holds no image afterwards, and save_composite never writes an image while
\* nothing is selected and no preview update is pending.
C25_EmptySelectionClearsComposite ==
    [][/\ ((\E id \in after_queue : PreviewTimer(id)) /\ gui_selected_sprites = <<>>)
            => image_ret'.kind # "image"
       /\ (save_composite /\ gui_selected_sprites = <<>> /\ after_queue = {})
            => saved_file' = saved_file
      ]_vars

C29_SelectionNamesParts ==
    sprite_data # <<>> =>
        LET names == {sprite_data[k].name : k \in 1..Len(sprite_data)}
        IN  /\ \A k \in 1..Len(gui_selected_sprites) : gui_selected_sprites[k] \in names
            /\ DOMAIN custom_depths \subseteq names
            /\ DOMAIN custom_colors \subseteq names

\* C27: in the threaded variant the composite displayed is never replaced by
\* the composite of a generation started earlier, and once every generation
\* thread has been displayed the composite is the one of the generation
\* started last.
C27_LatestGenerationWins ==
    [][/\ threads'.shown # threads.shown => threads'.shown > threads.shown
       /\ (threads'.running = <<>> /\ threads'.started > 0)
             => threads'.shown = threads'.started
      ]_vars

\* C28: in the threaded variant every composite handed to
\* display_composite_image is the composite of the selection and the depth
\* overrides as they were when generate_composite was called, and its canvas
\* size and its painted parts were computed from the same selection.
C28_CompositeOfOneSnapshot ==
    \A k \in 1..Len(threads.running) :
        LET t == threads.running[k]
        IN  t.at = "posted" =>
              /\ t.composite = create_composite_image(sprite_data,
                                   AsSelection(t.request_selected),
                                   t.request_depths, EmptyDict)
              /\ t.size_selected = t.sort_selected

====
